---- MODULE Spec2Model ----
(***************************************************************************)
(* Verification model of the trading core of meme-hunter-bot:              *)
(*   - SimulatedTrader (src/src/simulation/sim_trader.py): entries, exits  *)
(*     and the tiered stop-loss / take-profit handling of price updates;   *)
(*   - DEXManager.get_arbitrage_opportunities and its two sibling          *)
(*     detectors: cross-venue opportunity detection;                       *)
(*   - RiskCalculator.calculate_risk_score: the weighted risk score.       *)
(*                                                                         *)
(* Scaling.  The code computes with Decimal/float; the model uses exact    *)
(* integers: a price is in cents (1.00 = 100), an amount in hundredths of  *)
(* a token (1 token = 100), money (balance, position_size, profit) in      *)
(* units of 1/10000, i.e. price * amount.  A level that the code stores as *)
(* price * factor (stop_loss, take_profits) is stored as price * (100 *    *)
(* factor) and compared with 100 * current_price.                          *)
(***************************************************************************)
EXTENDS Integers, Sequences, FiniteSets, TLC

\* ------------------------------------------------------------------------
\* Bounds of the model
\* ------------------------------------------------------------------------
MaxSteps == 3
MaxMarketData == 2

Tokens == {"tokA", "tokB"}
Prices == {0, 90, 100, 131, 180, 500}
EntryPrices == {0, 100}
Amounts == {100, 20000, 60000}

\* ------------------------------------------------------------------------
\* SimulatedTrader: configuration (sim_trader.py, __init__)
\* ------------------------------------------------------------------------
initial_balance == 5000000
\* The whole initial balance as the maximum.
max_position_size_whole_balance == initial_balance

\* self.initial_balance * Decimal('0.10')
max_position_size == (initial_balance * 10) \div 100
stop_loss_pct == 8
\* The first two levels exchanged.
take_profit_levels_exchanged == [first |-> 180, second |-> 130, moonbag |-> 500]

\* self.take_profit_levels, times 100
take_profit_levels == [first |-> 130, second |-> 180, moonbag |-> 500]
tier_fraction == 40

VARIABLES
    current_balance,   \* self.current_balance
    positions,         \* self.positions: token -> position dict (open tokens only)
    trade_history,     \* self.trade_history
    wins,              \* self.wins
    losses,            \* self.losses
    total_trades,      \* self.total_trades
    last_call,         \* the call made by the last step, with its result
    exit_log,          \* exit requests issued by the last update_positions call
    steps,             \* number of calls made so far (bounded by MaxSteps)
    det,               \* detection: the detector called, its inputs, the venues
    det_result,        \* detection: what the call returned
    risk,              \* risk scoring: the opportunity and the data sources
    volatility_cache,  \* risk scoring: self.volatility_cache
    risk_result,       \* risk scoring: what calculate_risk_score returned
    poll,              \* polling round: the venues' answers and the round's progress
    rate,              \* rate limiting: the clock, self._last_request, the callers
    live,              \* LiveTestTrader: balance, positions, trade history, clock
    feed,              \* MarketDataHandler: the clock, self._cache, self._last_request
    mon,               \* SolanaTrader.monitor_with_backoff: the loop's state
    rm,                \* RiskManager: capital, limits, trades, daily_pnl
    eng,               \* TradingEngine: practice_balance, active_positions
    alerts             \* PriceAlertManager: self.alerts and what was returned

simVars == <<current_balance, positions, trade_history, wins, losses,
             total_trades, last_call, exit_log, steps>>

detVars == <<det, det_result>>

riskVars == <<risk, volatility_cache, risk_result>>

pollVars == <<poll>>

rateVars == <<rate>>

liveVars == <<live>>

feedVars == <<feed>>

monVars == <<mon>>

rmVars == <<rm>>

engVars == <<eng>>

alertVars == <<alerts>>

vars == <<simVars, detVars, riskVars, pollVars, rateVars, liveVars, feedVars,
         monVars, rmVars, engVars, alertVars>>

\* The trader object as one value, for the operators below.
Trader ==
    [current_balance |-> current_balance,
     positions       |-> positions,
     trade_history   |-> trade_history,
     wins            |-> wins,
     losses          |-> losses,
     total_trades    |-> total_trades]

EmptyMap == [x \in {} |-> 0]
NoCall == [op |-> "init"]

\* del d[k]
DictDel(d, k) == [x \in (DOMAIN d) \ {k} |-> d[x]]
\* d[k] = v
DictSet(d, k, v) == [x \in (DOMAIN d) \cup {k} |-> IF x = k THEN v ELSE d[x]]

\* The BUY branch with the balance deducted before the size check.
ExecuteBuy_deduct_first(t, token, amount, price) ==
    LET position_size == amount * price IN
    IF t.current_balance < amount * price
    THEN [trader |-> t,
          result |-> [success |-> FALSE, error |-> "Insufficient balance for trade"]]
    ELSE IF position_size > max_position_size
    THEN [trader |-> [t EXCEPT !.current_balance = @ - position_size],
          result |-> [success |-> FALSE, error |-> "Position size exceeds maximum allowed"]]
    ELSE [trader |->
            [t EXCEPT
               !.current_balance = @ - position_size,
               !.positions = DictSet(@, token,
                   [amount          |-> amount,
                    entry_price     |-> price,
                    current_price   |-> price,
                    position_size   |-> position_size,
                    stop_loss       |-> price * (100 - stop_loss_pct),
                    take_profits    |->
                        [first   |-> price * take_profit_levels.first,
                         second  |-> price * take_profit_levels.second,
                         moonbag |-> price * take_profit_levels.moonbag],
                    moonbag_reserved |-> FALSE])],
          result |-> [success |-> TRUE, error |-> ""]]

\* execute_trade, BUY branch: returns the trader and the returned dict.
ExecuteBuy(t, token, amount, price) ==
    LET position_size == amount * price IN
    IF t.current_balance < amount * price
    THEN [trader |-> t,
          result |-> [success |-> FALSE, error |-> "Insufficient balance for trade"]]
    ELSE IF position_size > max_position_size
    THEN [trader |-> t,
          result |-> [success |-> FALSE, error |-> "Position size exceeds maximum allowed"]]
    ELSE [trader |->
            [t EXCEPT
               !.current_balance = @ - position_size,
               !.positions = DictSet(@, token,
                   [amount          |-> amount,
                    entry_price     |-> price,
                    current_price   |-> price,
                    position_size   |-> position_size,
                    stop_loss       |-> price * (100 - stop_loss_pct),
                    take_profits    |->
                        [first   |-> price * take_profit_levels.first,
                         second  |-> price * take_profit_levels.second,
                         moonbag |-> price * take_profit_levels.moonbag],
                    moonbag_reserved |-> FALSE])],
          result |-> [success |-> TRUE, error |-> ""]]

\* A SELL that sells and records the amount asked for, and still deletes the
\* position.
ExecuteSell_requested_amount(t, token, amount, price) ==
    IF token \notin DOMAIN t.positions
    THEN [trader |-> t,
          result |-> [success |-> FALSE, error |-> "No open position for this token"]]
    ELSE
      LET position == t.positions[token]
          profit == (price - position.entry_price) * amount
      IN [trader |->
            [t EXCEPT
               !.current_balance = @ + amount * price,
               !.wins = IF price > position.entry_price THEN @ + 1 ELSE @,
               !.losses = IF price > position.entry_price THEN @ ELSE @ + 1,
               !.total_trades = @ + 1,
               !.trade_history = Append(@,
                   [token       |-> token,
                    action      |-> "SELL",
                    amount      |-> amount,
                    entry_price |-> position.entry_price,
                    exit_price  |-> price,
                    profit      |-> profit]),
               !.positions = DictDel(@, token)],
          result |-> [success |-> TRUE, error |-> ""]]

\* execute_trade, SELL branch.  The amount argument is not used: the whole
\* position is sold at the price and the position is deleted.
ExecuteSell(t, token, amount, price) ==
    IF token \notin DOMAIN t.positions
    THEN [trader |-> t,
          result |-> [success |-> FALSE, error |-> "No open position for this token"]]
    ELSE
      LET position == t.positions[token]
          profit == (price - position.entry_price) * position.amount
      IN [trader |->
            [t EXCEPT
               !.current_balance = @ + position.amount * price,
               !.wins = IF price > position.entry_price THEN @ + 1 ELSE @,
               !.losses = IF price > position.entry_price THEN @ ELSE @ + 1,
               !.total_trades = @ + 1,
               !.trade_history = Append(@,
                   [token       |-> token,
                    action      |-> "SELL",
                    amount      |-> position.amount,
                    entry_price |-> position.entry_price,
                    exit_price  |-> price,
                    profit      |-> profit]),
               !.positions = DictDel(@, token)],
          result |-> [success |-> TRUE, error |-> ""]]

ExecuteTrade(t, token, action, amount, price) ==
    IF action = "BUY" THEN ExecuteBuy(t, token, amount, price)
    ELSE ExecuteSell(t, token, amount, price)

\* ------------------------------------------------------------------------
\* SimulatedTrader.update_positions
\* ------------------------------------------------------------------------
\* The handler works on `position`, a reference to the dict stored in
\* self.positions.  A context c carries the trader, that dict, the exit
\* requests issued so far and the number of requests not yet returned.  As
\* long as the token is in self.positions the dict is the stored one, so a
\* write to it is a write to the stored position; after the position is
\* deleted the handler still holds (and writes) the dict.
Snapshot(c, token) ==
    [amount           |-> c.position.amount,
     moonbag_reserved |-> c.position.moonbag_reserved,
     active           |-> token \in DOMAIN c.trader.positions,
     held             |-> IF token \in DOMAIN c.trader.positions
                          THEN c.trader.positions[token].amount ELSE 0,
     balance          |-> c.trader.current_balance]

\* A write that also stores the dict back under its key in self.positions.
PositionWrite_restores(c, token, p) ==
    [c EXCEPT !.position = p,
              !.trader.positions = DictSet(@, token, p)]

\* position[...] = ...
PositionWrite(c, token, p) ==
    [c EXCEPT !.position = p,
              !.trader.positions =
                  IF token \in DOMAIN @ THEN DictSet(@, token, p) ELSE @]

\* The call self.execute_trade(token, 'SELL', amount, price) is made.
IssueExit(c, token, tag, amount, price) ==
    [c EXCEPT
       !.pending = @ + 1,
       !.log = Append(@,
           [token       |-> token,
            tag         |-> tag,
            amount      |-> amount,
            price       |-> price,
            outstanding |-> c.pending,
            success     |-> FALSE,
            before      |-> Snapshot(c, token),
            after       |-> Snapshot(c, token)])]

\* A call that is started as a task and not awaited: it is still outstanding
\* when the caller goes on.
CompleteExit_not_awaited(c, token, amount, price) ==
    LET r == ExecuteTrade(c.trader, token, "SELL", amount, price)
        c1 == [c EXCEPT !.trader = r.trader]
        n == Len(c.log)
    IN [c1 EXCEPT !.log[n].success = r.result.success,
                  !.log[n].after = Snapshot(c1, token)]

\* The call returns: its effect on the trader is applied, its result noted.
CompleteExit(c, token, amount, price) ==
    LET r == ExecuteTrade(c.trader, token, "SELL", amount, price)
        c1 == [c EXCEPT !.trader = r.trader, !.pending = @ - 1]
        n == Len(c.log)
    IN [c1 EXCEPT !.log[n].success = r.result.success,
                  !.log[n].after = Snapshot(c1, token)]

\* await self.execute_trade(token, 'SELL', amount, price): the caller goes on
\* only after the call has returned; the returned dict is dropped.
AwaitExit(c, token, tag, amount, price) ==
    CompleteExit(IssueExit(c, token, tag, amount, price), token, amount, price)

\* The statements that follow a request in its branch have run.
Settle(c, token) ==
    [c EXCEPT !.log[Len(c.log)].after = Snapshot(c, token)]

\* Lines 118-122: first target.
FirstTarget(c, token, current_price) ==
    IF current_price * 100 >= c.position.take_profits.first
    THEN LET sell_amount == (c.position.amount * tier_fraction) \div 100
             c1 == AwaitExit(c, token, "first", sell_amount, current_price)
             c2 == PositionWrite(c1, token,
                       [c1.position EXCEPT !.amount = @ - sell_amount])
         IN Settle(c2, token)
    ELSE c

\* Lines 124-129: second target.
SecondTarget(c, token, current_price) ==
    IF current_price * 100 >= c.position.take_profits.second
    THEN LET sell_amount == (c.position.amount * tier_fraction) \div 100
             c1 == AwaitExit(c, token, "second", sell_amount, current_price)
             c2 == PositionWrite(c1, token,
                       [c1.position EXCEPT !.amount = @ - sell_amount])
             c3 == PositionWrite(c2, token,
                       [c2.position EXCEPT !.moonbag_reserved = TRUE])
         IN Settle(c3, token)
    ELSE c

\* Lines 131-133: moonbag target.
MoonbagTarget(c, token, current_price) ==
    IF current_price * 100 >= c.position.take_profits.moonbag
    THEN AwaitExit(c, token, "moonbag", c.position.amount, current_price)
    ELSE c

\* Lines 116-133: take profit levels.
TakeProfits(c, token, current_price) ==
    IF ~c.position.moonbag_reserved
    THEN MoonbagTarget(
             SecondTarget(
                 FirstTarget(c, token, current_price),
                 token, current_price),
             token, current_price)
    ELSE c

\* Lines 111-114: stop loss, then `continue`.
StopLossHit(c, current_price) ==
    current_price * 100 <= c.position.stop_loss

\* The loop body without the `continue` after the stop-loss exit.
OnPriceUpdate_no_continue(c, token, current_price) ==
    IF token \notin DOMAIN c.trader.positions
    THEN c
    ELSE
      LET c0 == [c EXCEPT !.position = c.trader.positions[token]]
          c1 == PositionWrite(c0, token,
                    [c0.position EXCEPT !.current_price = current_price])
          c2 == IF StopLossHit(c1, current_price)
                THEN AwaitExit(c1, token, "stop_loss", c1.position.amount, current_price)
                ELSE c1
      IN TakeProfits(c2, token, current_price)

\* One iteration of the for loop of update_positions (lines 105-133).
OnPriceUpdate(c, token, current_price) ==
    IF token \notin DOMAIN c.trader.positions
    THEN c
    ELSE
      LET c0 == [c EXCEPT !.position = c.trader.positions[token]]
          c1 == PositionWrite(c0, token,
                    [c0.position EXCEPT !.current_price = current_price])
      IN IF StopLossHit(c1, current_price)
         THEN AwaitExit(c1, token, "stop_loss", c1.position.amount, current_price)
         ELSE TakeProfits(c1, token, current_price)

\* update_positions(market_data); market_data is the sequence of the dict's
\* items, in the dict's order.
RECURSIVE UpdatePositionsFrom(_, _, _)
UpdatePositionsFrom(c, market_data, i) ==
    IF i > Len(market_data)
    THEN c
    ELSE UpdatePositionsFrom(
             OnPriceUpdate(c, market_data[i].token, market_data[i].price),
             market_data, i + 1)

NoPosition == [amount |-> 0, moonbag_reserved |-> FALSE]

UpdatePositions(t, market_data) ==
    UpdatePositionsFrom(
        [trader |-> t, position |-> NoPosition, log |-> <<>>, pending |-> 0],
        market_data, 1)

\* The dicts a caller can pass: up to MaxMarketData tokens, each once.
MarketData ==
    UNION { { md \in [1..n -> [token : Tokens, price : Prices]] :
                \A i, j \in 1..n : i # j => md[i].token # md[j].token } :
            n \in 1..MaxMarketData }

\* ------------------------------------------------------------------------
\* SimulatedTrader: the calls as actions
\* ------------------------------------------------------------------------
SetTrader(t) ==
    /\ current_balance' = t.current_balance
    /\ positions' = t.positions
    /\ trade_history' = t.trade_history
    /\ wins' = t.wins
    /\ losses' = t.losses
    /\ total_trades' = t.total_trades

SimInit ==
    /\ current_balance = initial_balance
    /\ positions = EmptyMap
    /\ trade_history = <<>>
    /\ wins = 0
    /\ losses = 0
    /\ total_trades = 0
    /\ last_call = NoCall
    /\ exit_log = <<>>
    /\ steps = 0

\* execute_trade(token, 'BUY', amount, price)
Buy(token, amount, price) ==
    /\ steps < MaxSteps
    /\ LET r == ExecuteTrade(Trader, token, "BUY", amount, price) IN
         /\ SetTrader(r.trader)
         /\ last_call' = [op |-> "BUY", token |-> token, amount |-> amount,
                          price |-> price, success |-> r.result.success,
                          error |-> r.result.error]
    /\ exit_log' = <<>>
    /\ steps' = steps + 1
    /\ UNCHANGED <<detVars, riskVars, pollVars, rateVars, liveVars, feedVars,
                 monVars, rmVars, engVars, alertVars>>

\* execute_trade(token, 'SELL', amount, price), called from outside
Sell(token, amount, price) ==
    /\ steps < MaxSteps
    /\ LET r == ExecuteTrade(Trader, token, "SELL", amount, price) IN
         /\ SetTrader(r.trader)
         /\ last_call' = [op |-> "SELL", token |-> token, amount |-> amount,
                          price |-> price, success |-> r.result.success,
                          error |-> r.result.error]
    /\ exit_log' = <<>>
    /\ steps' = steps + 1
    /\ UNCHANGED <<detVars, riskVars, pollVars, rateVars, liveVars, feedVars,
                 monVars, rmVars, engVars, alertVars>>

\* update_positions(market_data)
Update(market_data) ==
    /\ steps < MaxSteps
    /\ LET c == UpdatePositions(Trader, market_data) IN
         /\ SetTrader(c.trader)
         /\ exit_log' = c.log
    /\ last_call' = [op |-> "update_positions", market_data |-> market_data]
    /\ steps' = steps + 1
    /\ UNCHANGED <<detVars, riskVars, pollVars, rateVars, liveVars, feedVars,
                 monVars, rmVars, engVars, alertVars>>

\* Prices of a feed that keeps quoting every token: below the stop of an
\* entry at 1.00, between its stop and its first target, above the target.
HoldPrices == {90, 100, 110, 131}

\* The dicts of such a feed: a price for every token.
FullMarketData ==
    { md \in [1..Cardinality(Tokens) -> [token : Tokens, price : HoldPrices]] :
          \A i, j \in DOMAIN md : i # j => md[i].token # md[j].token }

\* update_positions(market_data), called for as long as the trader runs
KeepUpdating(market_data) ==
    /\ LET c == UpdatePositions(Trader, market_data) IN
         /\ SetTrader(c.trader)
         /\ exit_log' = c.log
    /\ last_call' = [op |-> "price_feed"]
    /\ UNCHANGED <<steps, detVars, riskVars, pollVars, rateVars, liveVars, feedVars,
                 monVars, rmVars, engVars, alertVars>>

PriceFeed == \E market_data \in FullMarketData : KeepUpdating(market_data)

\* The entries made while the feed runs.
Entries ==
    \E token \in Tokens, price \in EntryPrices : Buy(token, 100, price)

SimNext ==
    \/ \E token \in Tokens, amount \in Amounts, price \in EntryPrices :
           Buy(token, amount, price)
    \/ \E token \in Tokens, amount \in Amounts, price \in Prices :
           Sell(token, amount, price)
    \/ \E market_data \in MarketData : Update(market_data)


\* ------------------------------------------------------------------------
\* Properties of the SimulatedTrader
\* ------------------------------------------------------------------------
RECURSIVE SoldFrom(_, _, _)
\* The quantity of the token recorded as sold in history[i..].
SoldFrom(history, token, i) ==
    IF i > Len(history) THEN 0
    ELSE (IF history[i].token = token THEN history[i].amount ELSE 0)
         + SoldFrom(history, token, i + 1)

Held(pos, token) == IF token \in DOMAIN pos THEN pos[token].amount ELSE 0

ExitsOf(log, token) == { i \in DOMAIN log : log[i].token = token }

\* C1: a price update creates or destroys no size: for every token, the
\* quantity recorded as sold plus the quantity still held in the active set
\* is the same after an update_positions call as before it, so it stays the
\* quantity bought.
C1_SizeConserved ==
    [][last_call'.op = "update_positions" =>
          \A token \in Tokens :
              Held(positions', token) + SoldFrom(trade_history', token, 1)
                  = Held(positions, token) + SoldFrom(trade_history, token, 1)]_vars

\* A take-profit exit has sold a position during a price update.
C1_Witness ==
    /\ last_call.op = "update_positions"
    /\ \E i \in DOMAIN exit_log :
           /\ exit_log[i].tag = "first"
           /\ exit_log[i].success
           /\ exit_log[i].before.amount > 0
           /\ SoldFrom(trade_history, exit_log[i].token, 1) >= exit_log[i].before.amount

\* C2: a price update that meets both the stop-loss condition and a
\* take-profit condition of an open position issues exactly one exit for it,
\* the stop-loss exit, and the position is closed.
C2_StopLossPrecedence ==
    [][last_call'.op = "update_positions" =>
          \A i \in DOMAIN last_call'.market_data :
              LET token == last_call'.market_data[i].token
                  price == last_call'.market_data[i].price
              IN (/\ token \in DOMAIN positions
                  /\ price * 100 <= positions[token].stop_loss
                  /\ \/ price * 100 >= positions[token].take_profits.first
                     \/ price * 100 >= positions[token].take_profits.second
                     \/ price * 100 >= positions[token].take_profits.moonbag)
                 => /\ token \notin DOMAIN positions'
                    /\ Cardinality(ExitsOf(exit_log', token)) = 1
                    /\ \A k \in ExitsOf(exit_log', token) :
                           exit_log'[k].tag = "stop_loss" /\ exit_log'[k].success]_vars

\* A stop-loss exit at a price that also meets the first take-profit level
\* of the position it closed.
C2_Witness ==
    /\ last_call.op = "update_positions"
    /\ \E i \in DOMAIN exit_log :
           /\ exit_log[i].tag = "stop_loss"
           /\ exit_log[i].success
           /\ LET h == trade_history[Len(trade_history)] IN
                /\ h.token = exit_log[i].token
                /\ h.exit_price * 100 <= h.entry_price * (100 - stop_loss_pct)
                /\ h.exit_price * 100 >= h.entry_price * take_profit_levels.first

\* C5: after the first take-profit tier has fired, the position is still in
\* the active set and holds the size it had less the 40% sold (so that a
\* later stop-loss can close the remaining 60%).
C5_PartialExitKeepsPosition ==
    \A i \in DOMAIN exit_log :
        exit_log[i].tag = "first" =>
            /\ exit_log[i].success
            /\ exit_log[i].token \in DOMAIN positions
            /\ positions[exit_log[i].token].amount
                   = exit_log[i].before.amount - exit_log[i].amount
            /\ trade_history[Len(trade_history)].amount = exit_log[i].amount

\* C6: every exit request is issued for a position that is in the active
\* set, and a position that has left the active set keeps its size and flags.
C6_ClosedIsFinal ==
    \A i \in DOMAIN exit_log :
        /\ exit_log[i].before.active
        /\ ~exit_log[i].before.active =>
               /\ exit_log[i].after.amount = exit_log[i].before.amount
               /\ exit_log[i].after.moonbag_reserved = exit_log[i].before.moonbag_reserved

\* C7: an exit request that failed has left the position (size, flags,
\* membership of the active set) and the balance as they were before it.
C7_FailedExitChangesNothing ==
    \A i \in DOMAIN exit_log :
        ~exit_log[i].success => exit_log[i].after = exit_log[i].before

\* C8: no exit request is issued while an earlier one has not returned.
C8_OneOutstandingExit ==
    \A i \in DOMAIN exit_log : exit_log[i].outstanding = 0

\* One price update has issued two exit requests for the same position.
C8_Witness ==
    \E i, j \in DOMAIN exit_log :
        i < j /\ exit_log[i].token = exit_log[j].token

\* ------------------------------------------------------------------------
\* Opportunity detection
\* ------------------------------------------------------------------------
\* Three detectors of the repository are modelled, one per value of
\* det.detector:
\*   "DEXManager"          dex_integrations.py, get_arbitrage_opportunities
\*   "ArbitrageBot"        arbitrage_bot.py, find_arbitrage_opportunity
\*   "SolanaArbitrageBot"  solana_arbitrage_bot.py, find_arbitrage_opportunity
\* What a fetch yields is a record: ok is FALSE when the fetch raised, value
\* is the number it returned.  Percentages are compared exactly, by
\* cross-multiplication.

\* self.dexes and self.trading_pairs, in dict / list order (the first
\* entries of each).
DexOrder(detector) ==
    CASE detector = "DEXManager" -> <<"Raydium", "Orca", "Jupiter">>
      [] detector = "ArbitrageBot" -> <<"uniswap_v2", "sushiswap", "pancakeswap">>
      [] detector = "SolanaArbitrageBot" -> <<"raydium", "orca", "serum">>

PairOrder(detector) ==
    CASE detector = "DEXManager" -> <<"SOL-USDC", "SOL-USDT">>
      [] detector = "ArbitrageBot" -> <<"WETH-USDC", "WETH-DAI">>
      [] detector = "SolanaArbitrageBot" -> <<"SOL-USDC", "RAY-USDC">>

SeqRange(q) == { q[i] : i \in DOMAIN q }

\* What a price fetch can yield, per detector.
Raised == [ok |-> FALSE, value |-> 0]
Returned(values) == { [ok |-> TRUE, value |-> v] : v \in values }

FetchResults(detector) ==
    CASE detector = "DEXManager" -> {Raised} \cup Returned({0, 100, 106})
      [] detector = "ArbitrageBot" -> {Raised} \cup Returned({1998, 2000, 2002})
      [] detector = "SolanaArbitrageBot" -> {Raised} \cup Returned({0, 1})

\* The minimum a caller can configure (min_profit_percentage, in percent;
\* min_profit_usd and min_profit_usdc, in price units).
Thresholds(detector) ==
    CASE detector = "DEXManager" -> {0, 1, 7}
      [] detector = "ArbitrageBot" -> {0, 2, 100}
      [] detector = "SolanaArbitrageBot" -> {0, 1000}

LiquidityValues == {0, 5}

\* DEXManager.get_all_prices, one pair: the tasks are awaited in the order of
\* self.dexes; a fetch that raised or yielded a price <= 0 adds no entry.
\* The dict is returned as a function with the venues present as its domain;
\* its order is the order of self.dexes.
QuotesOfPair(fetched, pair, dexes) ==
    LET present == { d \in SeqRange(dexes) :
                       fetched[pair][d].ok /\ fetched[pair][d].value > 0 }
    IN [d \in present |-> fetched[pair][d].value]

\* min(dex_prices.items(), key=lambda x: x[1]): the first item, in the
\* dict's order, whose price no other item undercuts.
MinPriceDex(dex_prices, dexes) ==
    LET d == dexes[CHOOSE i \in DOMAIN dexes :
                 /\ dexes[i] \in DOMAIN dex_prices
                 /\ \A j \in DOMAIN dexes :
                        dexes[j] \in DOMAIN dex_prices =>
                            \/ dex_prices[dexes[j]] > dex_prices[dexes[i]]
                            \/ (dex_prices[dexes[j]] = dex_prices[dexes[i]] /\ i <= j)]
    IN <<d, dex_prices[d]>>

\* The last item of the dict instead of the item with the highest price.
MaxPriceDex_last_item(dex_prices, dexes) ==
    LET d == dexes[CHOOSE i \in DOMAIN dexes :
                 /\ dexes[i] \in DOMAIN dex_prices
                 /\ \A j \in DOMAIN dexes :
                        dexes[j] \in DOMAIN dex_prices => j <= i]
    IN <<d, dex_prices[d]>>

\* max(dex_prices.items(), key=lambda x: x[1]): the first item, in the
\* dict's order, whose price no other item exceeds.
MaxPriceDex(dex_prices, dexes) ==
    LET d == dexes[CHOOSE i \in DOMAIN dexes :
                 /\ dexes[i] \in DOMAIN dex_prices
                 /\ \A j \in DOMAIN dexes :
                        dexes[j] \in DOMAIN dex_prices =>
                            \/ dex_prices[dexes[j]] < dex_prices[dexes[i]]
                            \/ (dex_prices[dexes[j]] = dex_prices[dexes[i]] /\ i <= j)]
    IN <<d, dex_prices[d]>>

\* A guard that lets a single venue through.
TooFewVenues_one_is_enough(dex_prices) == Cardinality(DOMAIN dex_prices) < 1

\* len(dex_prices) < 2
TooFewVenues(dex_prices) == Cardinality(DOMAIN dex_prices) < 2

\* A check that lets every spread through.
ProfitEnough_always(min_price, max_price, min_profit_percentage) == TRUE

\* profit_percentage >= min_profit_percentage, where profit_percentage is
\* ((max - min) / min) * 100; min > 0 here.
ProfitEnough(min_price, max_price, min_profit_percentage) ==
    (max_price - min_price) * 100 >= min_profit_percentage * min_price

\* DEXManager.get_arbitrage_opportunities, loop body for pairs[i..].  The
\* result is the list of opportunities, or raised when the division by the
\* lowest price fails.  profit_percentage is reported in hundredths of a
\* percent, rounded down.
RECURSIVE DexManagerFrom(_, _, _, _, _, _)
DexManagerFrom(prices, pairs, dexes, min_profit_percentage, i, opportunities) ==
    IF i > Len(pairs)
    THEN [done |-> TRUE, raised |-> FALSE, prices |-> prices,
          opportunities |-> opportunities]
    ELSE
      LET pair == pairs[i]
          dex_prices == prices[pair]
      IN IF TooFewVenues(dex_prices)
         THEN DexManagerFrom(prices, pairs, dexes, min_profit_percentage,
                             i + 1, opportunities)
         ELSE
           LET min_price_dex == MinPriceDex(dex_prices, dexes)
               max_price_dex == MaxPriceDex(dex_prices, dexes)
           IN IF min_price_dex[2] = 0
              THEN [done |-> TRUE, raised |-> TRUE, prices |-> prices,
                    opportunities |-> <<>>]
              ELSE DexManagerFrom(prices, pairs, dexes, min_profit_percentage,
                       i + 1,
                       IF ProfitEnough(min_price_dex[2], max_price_dex[2],
                                       min_profit_percentage)
                       THEN Append(opportunities,
                                [pair       |-> pair,
                                 buy_dex    |-> min_price_dex[1],
                                 sell_dex   |-> max_price_dex[1],
                                 buy_price  |-> min_price_dex[2],
                                 sell_price |-> max_price_dex[2],
                                 profit_percentage |->
                                     ((max_price_dex[2] - min_price_dex[2]) * 10000)
                                         \div min_price_dex[2]])
                       ELSE opportunities)

GetArbitrageOpportunities(fetched, min_profit_percentage) ==
    LET dexes == DexOrder("DEXManager")
        pairs == PairOrder("DEXManager")
        prices == [pair \in SeqRange(pairs) |-> QuotesOfPair(fetched, pair, dexes)]
    IN DexManagerFrom(prices, pairs, dexes, min_profit_percentage, 1, <<>>)

\* ArbitrageBot.find_arbitrage_opportunity, loop body for pairs[i..]: a fetch
\* that raised adds no entry, every returned price is kept; the first
\* opportunity found is returned.
RECURSIVE ArbitrageBotFrom(_, _, _, _, _)
ArbitrageBotFrom(fetched, pairs, dexes, min_profit_usd, i) ==
    IF i > Len(pairs)
    THEN [done |-> TRUE, raised |-> FALSE,
          prices |-> [pair \in SeqRange(pairs) |->
                        [d \in { x \in SeqRange(dexes) : fetched[pair][x].ok } |->
                            fetched[pair][d].value]],
          opportunities |-> <<>>]
    ELSE
      LET pair == pairs[i]
          prices == [d \in { x \in SeqRange(dexes) : fetched[pair][x].ok } |->
                        fetched[pair][d].value]
      IN IF TooFewVenues(prices)
         THEN ArbitrageBotFrom(fetched, pairs, dexes, min_profit_usd, i + 1)
         ELSE
           LET buy_dex == MinPriceDex(prices, dexes)
               sell_dex == MaxPriceDex(prices, dexes)
               price_diff == sell_dex[2] - buy_dex[2]
               profit_usd == price_diff * 1
           IN IF profit_usd >= min_profit_usd
              THEN [done |-> TRUE, raised |-> FALSE,
                    prices |-> [q \in SeqRange(pairs) |->
                                  [d \in { x \in SeqRange(dexes) : fetched[q][x].ok } |->
                                      fetched[q][d].value]],
                    opportunities |->
                        <<[pair       |-> pair,
                           buy_dex    |-> buy_dex[1],
                           sell_dex   |-> sell_dex[1],
                           buy_price  |-> buy_dex[2],
                           sell_price |-> sell_dex[2],
                           potential_profit_usd |-> profit_usd]>>]
              ELSE ArbitrageBotFrom(fetched, pairs, dexes, min_profit_usd, i + 1)

FindArbitrageOpportunity(fetched, min_profit_usd) ==
    ArbitrageBotFrom(fetched, PairOrder("ArbitrageBot"), DexOrder("ArbitrageBot"),
                     min_profit_usd, 1)

\* SolanaArbitrageBot.get_pool_price: calculate_raydium_price and
\* calculate_orca_price return 0 whatever the pool information is, any other
\* venue and any exception yield 0 as well.
GetPoolPrice(dex, pool_info) ==
    IF dex = "raydium" THEN 0
    ELSE IF dex = "orca" THEN 0
    ELSE 0

max_transaction_fee == 10

\* SolanaArbitrageBot.find_arbitrage_opportunity, loop body for pairs[i..].
RECURSIVE SolanaFrom(_, _, _, _, _, _)
SolanaFrom(fetched, pairs, dexes, min_profit_usdc, i, opportunities) ==
    LET quotes(pair) ==
            [d \in { x \in SeqRange(dexes) : GetPoolPrice(x, fetched[pair][x]) > 0 } |->
                GetPoolPrice(d, fetched[pair][d])]
    IN
    IF i > Len(pairs)
    THEN [done |-> TRUE, raised |-> FALSE,
          prices |-> [pair \in SeqRange(pairs) |-> quotes(pair)],
          opportunities |-> opportunities]
    ELSE
      LET pair == pairs[i]
          prices == quotes(pair)
      IN IF TooFewVenues(prices)
         THEN SolanaFrom(fetched, pairs, dexes, min_profit_usdc, i + 1, opportunities)
         ELSE
           LET buy_dex == MinPriceDex(prices, dexes)
               sell_dex == MaxPriceDex(prices, dexes)
               price_diff == sell_dex[2] - buy_dex[2]
               potential_profit == price_diff - max_transaction_fee
           IN SolanaFrom(fetched, pairs, dexes, min_profit_usdc, i + 1,
                  IF potential_profit >= min_profit_usdc
                  THEN Append(opportunities,
                           [pair       |-> pair,
                            buy_dex    |-> buy_dex[1],
                            sell_dex   |-> sell_dex[1],
                            buy_price  |-> buy_dex[2],
                            sell_price |-> sell_dex[2],
                            potential_profit |-> potential_profit])
                  ELSE opportunities)

SolanaFindArbitrageOpportunity(fetched, min_profit_usdc) ==
    SolanaFrom(fetched, PairOrder("SolanaArbitrageBot"),
               DexOrder("SolanaArbitrageBot"), min_profit_usdc, 1, <<>>)

\* ------------------------------------------------------------------------
\* Opportunity detection: inputs and calls
\* ------------------------------------------------------------------------
Detectors == {"DEXManager", "ArbitrageBot", "SolanaArbitrageBot"}

NotCalled == [done |-> FALSE]

Venues(detector) == SeqRange(DexOrder(detector))
PairsOf(detector) == SeqRange(PairOrder(detector))

\* The venues' liquidity (what get_liquidity would return for a venue, taken
\* to be the same for the pairs modelled) is drawn for the DEXManager only;
\* no detector reads it.
NoLiquidity(detector) == [d \in Venues(detector) |-> 0]

DetInputs(detector) ==
    [detector  : {detector},
     fetched   : [PairsOf(detector) -> [Venues(detector) -> FetchResults(detector)]],
     threshold : Thresholds(detector),
     liquidity : IF detector = "DEXManager"
                 THEN [Venues(detector) -> LiquidityValues]
                 ELSE {NoLiquidity(detector)}]

DetInit ==
    /\ \E detector \in Detectors : det \in DetInputs(detector)
    /\ det_result = NotCalled

\* await dex_manager.get_arbitrage_opportunities(min_profit_percentage)
DexManagerDetect ==
    /\ det.detector = "DEXManager"
    /\ ~det_result.done
    /\ det_result' = GetArbitrageOpportunities(det.fetched, det.threshold)
    /\ UNCHANGED <<det, simVars, riskVars, pollVars, rateVars, liveVars, feedVars,
                 monVars, rmVars, engVars, alertVars>>

\* await bot.find_arbitrage_opportunity()   (ArbitrageBot)
ArbitrageBotDetect ==
    /\ det.detector = "ArbitrageBot"
    /\ ~det_result.done
    /\ det_result' = FindArbitrageOpportunity(det.fetched, det.threshold)
    /\ UNCHANGED <<det, simVars, riskVars, pollVars, rateVars, liveVars, feedVars,
                 monVars, rmVars, engVars, alertVars>>

\* await bot.find_arbitrage_opportunity()   (SolanaArbitrageBot)
SolanaDetect ==
    /\ det.detector = "SolanaArbitrageBot"
    /\ ~det_result.done
    /\ det_result' = SolanaFindArbitrageOpportunity(det.fetched, det.threshold)
    /\ UNCHANGED <<det, simVars, riskVars, pollVars, rateVars, liveVars, feedVars,
                 monVars, rmVars, engVars, alertVars>>

DetNext ==
    \/ DexManagerDetect
    \/ ArbitrageBotDetect
    \/ SolanaDetect

\* ------------------------------------------------------------------------
\* RiskCalculator (risk_calculator.py)
\* ------------------------------------------------------------------------
\* Component scores are integers in the code's unit (0..100); total_risk is
\* kept in hundredths (the weights are in percent), so 100.0 is 10000.
\* Weights that still sum to 1.0, with volatility and liquidity exchanged.
weights_exchanged ==
    [volatility |-> 25, liquidity |-> 30, spread |-> 15, volume |-> 15,
     smart_contract |-> 15]

\* self.weights, in percent
weights ==
    [volatility |-> 30, liquidity |-> 25, spread |-> 15, volume |-> 15,
     smart_contract |-> 15]

KnownDexes == {"Raydium", "Orca", "Jupiter", "Saros", "Marinade"}

dex_risk_scores ==
    [d \in KnownDexes |->
        CASE d = "Raydium" -> 15 [] d = "Orca" -> 20 [] d = "Jupiter" -> 25
          [] d = "Saros" -> 35 [] d = "Marinade" -> 30]

default_risk == 50

Min2(a, b) == IF a < b THEN a ELSE b
Max2(a, b) == IF a > b THEN a ELSE b

\* get_dex_liquidity: the mock table, 100000 for any other venue.
GetDexLiquidity(dex) ==
    CASE dex = "Raydium" -> 1000000 [] dex = "Orca" -> 800000
      [] dex = "Jupiter" -> 1200000 [] dex = "Saros" -> 300000
      [] dex = "Marinade" -> 500000 [] OTHER -> 100000

\* min(100, volatility * 20) without the clamp.
NormalizeVolatility_unclamped(scaled) == scaled

\* min(100, volatility * 20); scaled is volatility * 20.
NormalizeVolatility(scaled) == Min2(100, scaled)

\* calculate_volatility_risk.  source describes what the method meets:
\*   cached   TRUE when the pair is in the cache and younger than 5 minutes
\*   history  "empty" (no data, or the request failed), "raises" (the
\*            computation raised), "nan" (the standard deviation is not a
\*            number: min(100, nan) is 100), or "prices" with scaled the
\*            value of volatility * 20
\* Returns the score and the cache.
CalculateVolatilityRisk(cache, pair, source) ==
    IF pair \in DOMAIN cache /\ source.cached
    THEN [score |-> cache[pair], cache |-> cache]
    ELSE IF source.history = "empty"
    THEN [score |-> default_risk, cache |-> cache]
    ELSE IF source.history = "raises"
    THEN [score |-> default_risk, cache |-> cache]
    ELSE LET risk_score == IF source.history = "nan" THEN 100
                           ELSE NormalizeVolatility(source.scaled)
         IN [score |-> risk_score, cache |-> DictSet(cache, pair, risk_score)]

\* calculate_liquidity_risk: 100 - min(100, (liquidity / 10000) * 100) for
\* each venue, the higher of the two.
CalculateLiquidityRisk(buy_dex, sell_dex) ==
    LET buy_liquidity == GetDexLiquidity(buy_dex)
        sell_liquidity == GetDexLiquidity(sell_dex)
        buy_risk == 100 - Min2(100, (buy_liquidity * 100) \div 10000)
        sell_risk == 100 - Min2(100, (sell_liquidity * 100) \div 10000)
    IN Max2(buy_risk, sell_risk)

\* The bands with their boundaries in the upper band (>= for >).
CalculateSpreadRisk_boundary_upper(buy_price, sell_price) ==
    IF buy_price = 0 THEN default_risk
    ELSE IF (sell_price - buy_price) * 100 >= 5 * buy_price THEN 80
    ELSE IF (sell_price - buy_price) * 100 >= 2 * buy_price THEN 50
    ELSE 20

\* calculate_spread_risk: the division by a zero buy price raises, and the
\* handler returns 50.
CalculateSpreadRisk(buy_price, sell_price) ==
    IF buy_price = 0 THEN default_risk
    ELSE IF (sell_price - buy_price) * 100 > 5 * buy_price THEN 80
    ELSE IF (sell_price - buy_price) * 100 > 2 * buy_price THEN 50
    ELSE 20

\* calculate_volume_risk: volume.ok is FALSE when the comparison raises.
CalculateVolumeRisk(volume) ==
    IF ~volume.ok THEN default_risk
    ELSE IF volume.value > 1000000 THEN 20
    ELSE IF volume.value > 100000 THEN 50
    ELSE 80

\* calculate_smart_contract_risk
CalculateSmartContractRisk(buy_dex, sell_dex) ==
    LET buy_risk == IF buy_dex \in KnownDexes THEN dex_risk_scores[buy_dex]
                    ELSE default_risk
        sell_risk == IF sell_dex \in KnownDexes THEN dex_risk_scores[sell_dex]
                     ELSE default_risk
    IN Max2(buy_risk, sell_risk)

\* get_risk_level with the High Risk boundary at 70.
GetRiskLevel_boundary_70(risk_score) ==
    IF risk_score < 3000 THEN "Low Risk"
    ELSE IF risk_score < 7000 THEN "Medium Risk"
    ELSE "High Risk"

\* get_risk_level; risk_score in hundredths.
GetRiskLevel(risk_score) ==
    IF risk_score < 3000 THEN "Low Risk"
    ELSE IF risk_score < 6000 THEN "Medium Risk"
    ELSE "High Risk"

\* get_risk_recommendations; risk_score in hundredths.
GetRiskRecommendations(risk_score) ==
    IF risk_score >= 6000
    THEN <<"High risk detected - proceed with caution",
           "Consider reducing trade size",
           "Monitor execution closely">>
    ELSE IF risk_score >= 3000
    THEN <<"Moderate risk - maintain standard precautions",
           "Consider standard position sizing",
           "Monitor market conditions">>
    ELSE <<"Low risk opportunity",
           "Standard trading parameters acceptable",
           "Regular monitoring sufficient">>

\* calculate_risk_score.  An opportunity that lacks a key makes the method
\* raise inside its try block: the error dict is returned.
CalculateRiskScore(cache, r) ==
    IF ~r.well_formed
    THEN [done |-> TRUE, error |-> TRUE, total_risk |-> 100 * 100, cache |-> cache]
    ELSE
      LET opportunity == r.opportunity
          v == CalculateVolatilityRisk(cache, opportunity.pair, r.volatility)
          volatility_risk == v.score
          liquidity_risk == CalculateLiquidityRisk(opportunity.buy_dex,
                                                   opportunity.sell_dex)
          spread_risk == CalculateSpreadRisk(opportunity.buy_price,
                                             opportunity.sell_price)
          volume_risk == CalculateVolumeRisk(r.volume)
          smart_contract_risk == CalculateSmartContractRisk(opportunity.buy_dex,
                                                            opportunity.sell_dex)
          total_risk == volatility_risk * weights.volatility
                        + liquidity_risk * weights.liquidity
                        + spread_risk * weights.spread
                        + volume_risk * weights.volume
                        + smart_contract_risk * weights.smart_contract
      IN [done |-> TRUE, error |-> FALSE, total_risk |-> total_risk,
          components |->
              [volatility_risk |-> volatility_risk,
               liquidity_risk |-> liquidity_risk,
               spread_risk |-> spread_risk,
               volume_risk |-> volume_risk,
               smart_contract_risk |-> smart_contract_risk],
          risk_level |-> GetRiskLevel(total_risk),
          recommendations |-> GetRiskRecommendations(total_risk),
          cache |-> v.cache]

\* Inputs of a call.
RiskDexes == {"Raydium", "Saros", "NewDex"}
RiskPair == "solana"
ScaledVolatilities == {0, 37, 100, 250}
CachedScores == {0, 37, 100}
Volumes == {0, 100000, 100001, 1000000, 1000001}

VolatilitySources ==
    [cached : BOOLEAN, history : {"empty", "raises", "nan"}, scaled : {0}]
    \cup [cached : BOOLEAN, history : {"prices"}, scaled : ScaledVolatilities]

VolumeSources ==
    {[ok |-> FALSE, value |-> 0]} \cup [ok : {TRUE}, value : Volumes]

RiskInputs ==
    [well_formed : BOOLEAN,
     opportunity : [pair : {RiskPair}, buy_dex : RiskDexes, sell_dex : RiskDexes,
                    buy_price : {0, 100}, sell_price : {100, 102, 105, 106}],
     volatility  : VolatilitySources,
     volume      : VolumeSources]

\* The cache holds what earlier calls stored: nothing, or a score.
RiskInit ==
    /\ risk \in RiskInputs
    /\ volatility_cache \in
           {EmptyMap} \cup { [p \in {RiskPair} |-> sc] : sc \in CachedScores }
    /\ risk_result = NotCalled

\* await calculator.calculate_risk_score(opportunity)
Score ==
    /\ ~risk_result.done
    /\ LET r == CalculateRiskScore(volatility_cache, risk) IN
         /\ risk_result' = [x \in (DOMAIN r) \ {"cache"} |-> r[x]]
         /\ volatility_cache' = r.cache
    /\ UNCHANGED <<risk, simVars, detVars, pollVars, rateVars, liveVars, feedVars,
                 monVars, rmVars, engVars, alertVars>>

RiskNext == Score

\* ------------------------------------------------------------------------
\* DEXManager: a polling round, one await at a time
\* ------------------------------------------------------------------------
\* What a venue's get_price task does when get_all_prices awaits it: it
\* returns a price (0.0 when the response status is not 200), it raises, or
\* it never completes.  get_all_prices and the venue classes set no timeout.
Answers ==
    { [kind |-> "returns", value |-> v] : v \in {0, 100, 106} }
        \cup { [kind |-> "raises", value |-> 0], [kind |-> "never", value |-> 0] }

PollDexes == DexOrder("DEXManager")
PollPairs == PairOrder("DEXManager")

\* min_profit_percentage: float = 1.0
default_min_profit_percentage == 1

PollInit ==
    \E answers \in [SeqRange(PollPairs) -> [SeqRange(PollDexes) -> Answers]] :
        poll = [pc |-> "create_tasks", answers |-> answers, i |-> 1, j |-> 1,
                prices |-> EmptyMap, error_log |-> {}, opportunities |-> <<>>]

\* for base, quote in self.trading_pairs: prices[pair_key] = {}; one task
\* per venue is created
CreateTasks ==
    /\ poll.pc = "create_tasks"
    /\ poll' = [poll EXCEPT !.pc = "await", !.j = 1,
                            !.prices = DictSet(@, PollPairs[poll.i], EmptyMap)]
    /\ UNCHANGED <<simVars, detVars, riskVars, rateVars, liveVars, feedVars,
                 monVars, rmVars, engVars, alertVars>>

AwaitOutcome_silent(p, pair, dex_name, answer) ==
    IF answer.kind = "raises"
    THEN p
    ELSE IF answer.value > 0
         THEN [p EXCEPT !.prices[pair] = DictSet(@, dex_name, answer.value)]
         ELSE p

\* try: price = await task; if price > 0: prices[pair_key][dex_name] = price
\* except Exception as e: logging.error(...)
AwaitOutcome(p, pair, dex_name, answer) ==
    IF answer.kind = "raises"
    THEN [p EXCEPT !.error_log = @ \cup {<<pair, dex_name>>}]
    ELSE IF answer.value > 0
         THEN [p EXCEPT !.prices[pair] = DictSet(@, dex_name, answer.value)]
         ELSE p

\* for dex_name, task in tasks: the await of one task.  A task that never
\* completes never resumes the loop.
AwaitTask ==
    /\ poll.pc = "await"
    /\ LET pair == PollPairs[poll.i]
           dex_name == PollDexes[poll.j]
           answer == poll.answers[pair][dex_name]
           q == AwaitOutcome(poll, pair, dex_name, answer)
       IN /\ answer.kind # "never"
          /\ poll' = IF poll.j < Len(PollDexes)
                     THEN [q EXCEPT !.j = poll.j + 1]
                     ELSE IF poll.i < Len(PollPairs)
                          THEN [q EXCEPT !.i = poll.i + 1, !.pc = "create_tasks"]
                          ELSE [q EXCEPT !.pc = "detect"]
    /\ UNCHANGED <<simVars, detVars, riskVars, rateVars, liveVars, feedVars,
                 monVars, rmVars, engVars, alertVars>>

\* get_arbitrage_opportunities after `prices = await self.get_all_prices()`
DetectFromPoll ==
    /\ poll.pc = "detect"
    /\ LET r == DexManagerFrom(poll.prices, PollPairs, PollDexes,
                               default_min_profit_percentage, 1, <<>>)
       IN poll' = [poll EXCEPT !.pc = IF r.raised THEN "raised" ELSE "done",
                               !.opportunities = r.opportunities]
    /\ UNCHANGED <<simVars, detVars, riskVars, rateVars, liveVars, feedVars,
                 monVars, rmVars, engVars, alertVars>>

PollNext == CreateTasks \/ AwaitTask \/ DetectFromPoll

\* ------------------------------------------------------------------------
\* MarketDataHandler._wait_for_rate_limit, called by concurrent tasks
\* ------------------------------------------------------------------------
\* Time is counted in ticks of 0.05 s.
MaxClock == 4
MaxCalls == 2
Callers == {"task1", "task2"}

\* self._rate_limits, in ticks: 0.2 s, 0.05 s, 0.1 s
rate_limits == [coingecko |-> 4, binance |-> 1, poocoin |-> 2]

\* timedelta(minutes=1), in ticks
a_minute == 1200

\* self._last_request[api]: a defaultdict whose missing entries read as one
\* minute before the read
LastRequest(r, api) ==
    IF api \in DOMAIN r.last_request THEN r.last_request[api]
    ELSE r.now - a_minute

NotWaiting == [pc |-> "ready", api |-> "none", wake_at |-> 0]

RateInit ==
    rate = [now |-> 0, last_request |-> EmptyMap,
            callers |-> [t \in Callers |-> NotWaiting],
            calls |-> [t \in Callers |-> 0],
            requests |-> [api \in DOMAIN rate_limits |-> <<>>]]

\* self._last_request[api] = datetime.now(), and the request that follows it
Stamp(r, t, api) ==
    [r EXCEPT !.last_request = DictSet(@, api, r.now),
              !.requests[api] = Append(@, r.now),
              !.callers[t] = NotWaiting,
              !.calls[t] = @ + 1]

\* The method up to its await: the limit check, and either the stamp at once
\* or the start of asyncio.sleep(wait_time - time_since).
Enter(r, t, api) ==
    LET wait_time == rate_limits[api]
        last_request == LastRequest(r, api)
        time_since == r.now - last_request
    IN IF time_since < wait_time
       THEN [r EXCEPT !.callers[t] = [pc |-> "sleeping", api |-> api,
                                      wake_at |-> r.now + (wait_time - time_since)]]
       ELSE Stamp(r, t, api)

\* A task calls _wait_for_rate_limit(api).
WaitForRateLimit(t, api) ==
    /\ rate.callers[t].pc = "ready"
    /\ rate.calls[t] < MaxCalls
    /\ rate' = Enter(rate, t, api)
    /\ UNCHANGED <<simVars, detVars, riskVars, pollVars, liveVars, feedVars,
                 monVars, rmVars, engVars, alertVars>>

\* asyncio.sleep returns, not before its delay has passed; the method stamps
\* the time and returns.
Wake(t) ==
    /\ rate.callers[t].pc = "sleeping"
    /\ rate.now >= rate.callers[t].wake_at
    /\ rate' = Stamp(rate, t, rate.callers[t].api)
    /\ UNCHANGED <<simVars, detVars, riskVars, pollVars, liveVars, feedVars,
                 monVars, rmVars, engVars, alertVars>>

\* Time passes.
Tick ==
    /\ rate.now < MaxClock
    /\ rate' = [rate EXCEPT !.now = @ + 1]
    /\ UNCHANGED <<simVars, detVars, riskVars, pollVars, liveVars, feedVars,
                 monVars, rmVars, engVars, alertVars>>

RateNext ==
    \/ \E t \in Callers, api \in DOMAIN rate_limits : WaitForRateLimit(t, api)
    \/ \E t \in Callers : Wake(t)
    \/ Tick

\* ------------------------------------------------------------------------
\* LiveTestTrader (deployment/trading-bot-deployment/test_live_trading.py)
\* ------------------------------------------------------------------------
\* Scaling.  SOL amounts (test_balance, size, pnl) are in 1/10000 SOL and
\* prices in cents.  pnl_percent = (current_price - entry_price) /
\* entry_price is compared by cross-multiplication; highest_pnl, which is
\* only ever compared with the pnl_percent of the same position, is held as
\* the numerator current_price - entry_price.  trailing_stop, a price times
\* 0.98, is held times 100; 0 stands for the missing key (and for 0.0), which
\* position.get('trailing_stop') treats alike.  The clock live.now stands for
\* datetime.now() and advances with every call; live.op and live.fetched note
\* the last call and the prices it fetched for the positions it handled.  The prices come from
\* self.trader._get_current_price, an external source, and are inputs; the
\* metrics and the dashboard, which are derived from the trade history, are
\* left out.
MaxLiveSteps == 4
LivePrices == {94, 100, 105, 108, 110, 116}
LiveEntryPrices == {100}

test_balance == 1000000
risk_settings ==
    [max_position_size |-> 50000,
     max_positions     |-> 3,
     stop_loss         |-> 5,
     take_profit       |-> 15,
     trailing_stop     |-> 2]

LiveInit ==
    live = [test_balance  |-> test_balance,
            positions     |-> EmptyMap,
            order         |-> <<>>,
            trade_history |-> <<>>,
            now           |-> 0,
            op            |-> "init",
            fetched       |-> EmptyMap]

\* The keys of a dict, in its order, without k.
OrderDel(order, k) == SelectSeq(order, LAMBDA x : x # k)

\* open_position(token, analysis); price is what the price source returned.
OpenPositionOf(l, token, price) ==
    LET size == Min2(risk_settings.max_position_size,
                     (l.test_balance * 10) \div 100)
    IN [l EXCEPT
          !.positions = DictSet(@, token,
              [entry_price   |-> price,
               size          |-> size,
               time          |-> l.now,
               highest_pnl   |-> 0,
               trailing_stop |-> 0]),
          !.order = IF token \in DOMAIN l.positions
                    THEN @ ELSE Append(@, token),
          !.test_balance = @ - size]

\* close_position(token, reason); current_price is what the price source
\* returned to this call.  The record keeps the opening and the closing time
\* of which the code stores the difference.
ClosePosition(l, token, reason, current_price) ==
    LET position == l.positions[token]
        pnl == (position.size * (current_price - position.entry_price))
                   \div position.entry_price
    IN [l EXCEPT
          !.test_balance = @ + position.size + pnl,
          !.trade_history = Append(@,
              [token       |-> token,
               entry_price |-> position.entry_price,
               exit_price  |-> current_price,
               size        |-> position.size,
               pnl         |-> pnl,
               opened      |-> position.time,
               closed      |-> l.now,
               reason      |-> reason]),
          !.positions = DictDel(@, token),
          !.order = OrderDel(@, token)]

\* An update that follows the price, whether it went up or down.
UpdateTrailingStop_follows_price(l, token, current_price) ==
    [l EXCEPT
       !.positions[token].highest_pnl =
           current_price - l.positions[token].entry_price,
       !.positions[token].trailing_stop =
           current_price * (100 - risk_settings.trailing_stop)]

\* Lines 140-143: the trailing stop is raised when pnl_percent exceeds the
\* highest seen so far.
UpdateTrailingStop(l, token, current_price) ==
    LET position == l.positions[token]
        pnl_percent == current_price - position.entry_price
    IN IF pnl_percent > position.highest_pnl
       THEN [l EXCEPT
               !.positions[token].highest_pnl = pnl_percent,
               !.positions[token].trailing_stop =
                   current_price * (100 - risk_settings.trailing_stop)]
       ELSE l

\* Line 146: the trailing-stop test.
TrailingStopHit(l, token, current_price) ==
    /\ l.positions[token].trailing_stop # 0
    /\ current_price * 100 < l.positions[token].trailing_stop

\* One iteration of the loop of manage_positions (lines 123-148).
ManagePosition(l, token, current_price, close_price) ==
    LET position == l.positions[token]
        entry_price == position.entry_price
        pnl_percent == current_price - entry_price
    IN IF pnl_percent * 100 <= -(risk_settings.stop_loss * entry_price)
       THEN ClosePosition(l, token, "Stop loss hit", close_price)
       ELSE IF pnl_percent * 100 >= risk_settings.take_profit * entry_price
       THEN ClosePosition(l, token, "Take profit hit", close_price)
       ELSE LET l1 == UpdateTrailingStop(l, token, current_price)
            IN IF TrailingStopHit(l1, token, current_price)
               THEN ClosePosition(l1, token, "Trailing stop hit", close_price)
               ELSE l1

\* manage_positions over list(self.positions.items()), taken at the start.
RECURSIVE ManagePositionsFrom(_, _, _, _, _)
ManagePositionsFrom(l, items, quotes, close_quotes, i) ==
    IF i > Len(items)
    THEN l
    ELSE ManagePositionsFrom(
             ManagePosition(l, items[i], quotes[items[i]], close_quotes[items[i]]),
             items, quotes, close_quotes, i + 1)

\* manage_positions(); quotes are the prices fetched in the loop,
\* close_quotes those fetched by close_position.
ManagePositions(quotes, close_quotes) ==
    /\ live.now < MaxLiveSteps
    /\ live.order # <<>>
    /\ live' = [ManagePositionsFrom(live, live.order, quotes, close_quotes, 1)
                    EXCEPT !.now = @ + 1,
                           !.op = "manage_positions",
                           !.fetched = [token \in DOMAIN live.positions |->
                                           quotes[token]]]
    /\ UNCHANGED <<simVars, detVars, riskVars, pollVars, rateVars, feedVars,
                 monVars, rmVars, engVars, alertVars>>

\* open_position(token, analysis), as scan_for_opportunities calls it: for a
\* token without a position, while fewer than max_positions are open.
OpenPosition(token, price) ==
    /\ live.now < MaxLiveSteps
    /\ token \notin DOMAIN live.positions
    /\ Len(live.order) < risk_settings.max_positions
    /\ live' = [OpenPositionOf(live, token, price)
                    EXCEPT !.now = @ + 1,
                           !.op = "open_position",
                           !.fetched = [x \in {token} |-> price]]
    /\ UNCHANGED <<simVars, detVars, riskVars, pollVars, rateVars, feedVars,
                 monVars, rmVars, engVars, alertVars>>

LiveNext ==
    \/ \E token \in Tokens, price \in LiveEntryPrices : OpenPosition(token, price)
    \/ \E quotes \in [Tokens -> LivePrices], close_quotes \in [Tokens -> LivePrices] :
           ManagePositions(quotes, close_quotes)

\* ------------------------------------------------------------------------
\* MarketDataHandler.get_token_data, called by one task (market_data.py)
\* ------------------------------------------------------------------------
\* Time is counted in ticks of 0.05 s, as for the rate limiter.  A call is
\* made by one task at a time, as TradingEngine.start does for one token
\* after the other.  The three sources are queried concurrently by
\* asyncio.gather; each waits for its own API's limit, so the request to an
\* API leaves at the time its wait ends, and the call returns when the last
\* of them has left (the duration of a request itself is not counted).
MaxFeedPasses == 2
MaxFeedCalls == 3
FeedTokens == {"PEPE", "DOGE"}
FeedPrices == {1, 2}

\* self._cache_duration: 5 s, in ticks
cache_duration == 100

\* self.token_ids: whether the token has an id at the API
token_ids ==
    [token \in FeedTokens |->
        [coingecko |-> TRUE, binance |-> TRUE, poocoin |-> token = "PEPE"]]

\* The order of the tasks handed to asyncio.gather.
SourceOrder == <<"binance", "poocoin", "coingecko">>

\* What a source answers: no dict (None or an exception), or a dict with a
\* price.
NoData == [ok |-> FALSE, price |-> 0]
SourceAnswers == {NoData} \cup [ok : {TRUE}, price : FeedPrices]

FeedInit ==
    feed = [now |-> 0, cache |-> EmptyMap, last_request |-> EmptyMap,
            requests |-> [api \in DOMAIN rate_limits |-> <<>>],
            calls |-> 0, passes |-> 0,
            returned |-> NoData]

\* The time at which _wait_for_rate_limit(api), entered at f.now, lets its
\* caller go on: at once, or after the sleep.
SentAt(f, api) ==
    LET wait_time == rate_limits[api]
        time_since == f.now - LastRequest(f, api)
    IN IF time_since < wait_time
       THEN f.now + (wait_time - time_since)
       ELSE f.now

\* _get_binance_data, _get_poocoin_data, _get_coingecko_data: nothing is
\* sent for a token without an id at the API (binance, poocoin); otherwise
\* the request leaves when the wait ends.  g carries the requests and the
\* stamps made so far, f the handler as it was when the call began.
GetSourceData(g, f, token, api) ==
    IF ~token_ids[token][api]
    THEN g
    ELSE [g EXCEPT
            !.last_request = DictSet(@, api, SentAt(f, api)),
            !.requests[api] = Append(@, SentAt(f, api)),
            !.now = Max2(@, SentAt(f, api))]

\* The dicts among the results of gather, by source.
ValidResults(token, answers) ==
    { api \in DOMAIN answers : token_ids[token][api] /\ answers[api].ok }

\* _merge_token_data: binance first, then poocoin, then coingecko.
MergeTokenData(valid_results, answers) ==
    LET source == IF "binance" \in valid_results THEN "binance"
                  ELSE IF "poocoin" \in valid_results THEN "poocoin"
                  ELSE "coingecko"
    IN [ok |-> TRUE, price |-> answers[source].price]

\* Lines 65-68: the token is cached and its entry is younger than
\* _cache_duration.
CacheHit(f, token) ==
    /\ token \in DOMAIN f.cache
    /\ f.now - f.cache[token].timestamp < cache_duration

\* get_token_data(token_symbol); answers are what the three sources yield.
GetTokenDataOf(f, token, answers) ==
    IF CacheHit(f, token)
    THEN [f EXCEPT !.returned = f.cache[token].data]
    ELSE
      LET g == GetSourceData(
                   GetSourceData(
                       GetSourceData(f, f, token, SourceOrder[1]),
                       f, token, SourceOrder[2]),
                   f, token, SourceOrder[3])
          valid_results == ValidResults(token, answers)
      IN IF valid_results = {}
         THEN [g EXCEPT !.returned = NoData]
         ELSE LET merged_data == MergeTokenData(valid_results, answers)
              IN [g EXCEPT
                    !.cache = DictSet(@, token,
                        [data |-> merged_data, timestamp |-> g.now]),
                    !.returned = merged_data]

\* await handler.get_token_data(token)
GetTokenData(token, answers) ==
    /\ feed.calls < MaxFeedCalls
    /\ feed' = [GetTokenDataOf(feed, token, answers) EXCEPT !.calls = @ + 1]
    /\ UNCHANGED <<simVars, detVars, riskVars, pollVars, rateVars, liveVars,
                 monVars, rmVars, engVars, alertVars>>

\* Time passes between two calls: a tick, or the cache duration.
Pass(dt) ==
    /\ feed.passes < MaxFeedPasses
    /\ feed' = [feed EXCEPT !.now = @ + dt, !.passes = @ + 1]
    /\ UNCHANGED <<simVars, detVars, riskVars, pollVars, rateVars, liveVars,
                 monVars, rmVars, engVars, alertVars>>

FeedNext ==
    \/ \E token \in FeedTokens, answers \in [DOMAIN rate_limits -> SourceAnswers] :
           GetTokenData(token, answers)
    \/ \E dt \in {1, cache_duration} : Pass(dt)

\* ------------------------------------------------------------------------
\* SolanaTrader.monitor_with_backoff (solana_trader.py)
\* ------------------------------------------------------------------------
\* One action is one iteration of the loop, run by the monitoring task.  The
\* clock is outside the model: whether the cleanup interval has passed is an
\* input of the iteration, and so is what the RPC endpoint answers.  The
\* limit of 1000 stored signatures is scaled to 2; the trimming keeps the
\* most recent entries whatever the limit.  mon.copied counts the
\* analyze_and_copy_trade calls made per signature, and mon.slept notes the
\* backoff the iteration slept.
MaxIterations == 8
Signatures == {"sig1", "sig2", "sig3", "sig4"}

max_stored_transactions == 2
max_backoff == 60
fails_limit == 5

\* self.rpc_endpoints, in the dict's order
EndpointOrder ==
    <<"https://api.mainnet-beta.solana.com",
      "https://solana-api.projectserum.com",
      "https://rpc.ankr.com/solana">>

Endpoints == { EndpointOrder[i] : i \in DOMAIN EndpointOrder }

\* What the request of an iteration yields: it raises, or it returns a list
\* of transactions (their signatures).
Responses ==
    {[ok |-> FALSE, data |-> <<>>]}
    \cup { [ok |-> TRUE, data |-> data] :
             data \in UNION { [1..n -> Signatures] : n \in 0..2 } }

MonInit ==
    mon = [processed_transactions |-> <<>>,
           copied      |-> [sig \in Signatures |-> 0],
           fails       |-> [e \in Endpoints |-> 0],
           current_rpc |-> "None",
           backoff     |-> 1,
           slept       |-> 0,
           outcome     |-> "init",
           running     |-> TRUE,
           iterations  |-> 0]

\* xs[-limit:]
LastEntries(xs, limit) ==
    IF Len(xs) > limit THEN SubSeq(xs, Len(xs) - limit + 1, Len(xs)) ELSE xs

\* cleanup_resources: nothing unless the cleanup interval has passed; then
\* processed_transactions is cut to its most recent entries.
CleanupResources(m, due) ==
    IF ~due THEN m
    ELSE [m EXCEPT !.processed_transactions =
                       LastEntries(@, max_stored_transactions)]

\* _rotate_rpc as the class has it: the second definition (lines 921-923)
\* replaces the first, and selects the first endpoint.
RotateRpc(m) == [m EXCEPT !.current_rpc = EndpointOrder[1]]

RECURSIVE ProcessFrom(_, _, _)
\* Lines 369-372: a transaction whose signature is not in
\* processed_transactions is copy-traded, and its signature appended.
ProcessFrom(m, data, i) ==
    IF i > Len(data) THEN m
    ELSE ProcessFrom(
             IF \E k \in DOMAIN m.processed_transactions :
                    m.processed_transactions[k] = data[i]
             THEN m
             ELSE [m EXCEPT !.copied[data[i]] = @ + 1,
                            !.processed_transactions = Append(@, data[i])],
             data, i + 1)

\* min(backoff * 2, max_backoff) without the minimum.
NextBackoff_uncapped(backoff) == backoff * 2

\* min(backoff * 2, max_backoff)
NextBackoff(backoff) == Min2(backoff * 2, max_backoff)

\* Lines 380-387: the handler of a failed iteration.  Counting the failure of
\* an endpoint that is not a key of rpc_endpoints raises, and the exception
\* leaves the loop.
OnFailure(m) ==
    IF m.current_rpc \notin Endpoints
    THEN [m EXCEPT !.running = FALSE, !.outcome = "stopped", !.slept = 0]
    ELSE [m EXCEPT !.fails[m.current_rpc] = @ + 1,
                   !.slept = m.backoff,
                   !.backoff = NextBackoff(m.backoff),
                   !.outcome = "failure"]

\* Lines 374-378: the end of a successful iteration.
OnSuccess(m) ==
    [m EXCEPT !.backoff = 1,
              !.fails[m.current_rpc] = 0,
              !.slept = 0,
              !.outcome = "success"]

\* One iteration of the while loop (lines 353-390).  A request to an endpoint
\* that is not a URL raises.
IterationOf(m, due, response) ==
    LET m1 == RotateRpc(CleanupResources(m, due))
    IN IF ~response.ok \/ m1.current_rpc \notin Endpoints
       THEN OnFailure(m1)
       ELSE OnSuccess(ProcessFrom(m1, response.data, 1))

MonitorIteration(due, response) ==
    /\ mon.running
    /\ mon.iterations < MaxIterations
    /\ mon' = [IterationOf(mon, due, response) EXCEPT !.iterations = @ + 1]
    /\ UNCHANGED <<simVars, detVars, riskVars, pollVars, rateVars, liveVars,
                   feedVars, rmVars, engVars, alertVars>>

MonNext ==
    \E due \in BOOLEAN, response \in Responses : MonitorIteration(due, response)

\* ------------------------------------------------------------------------
\* RiskManager (risk_manager.py)
\* ------------------------------------------------------------------------
\* Money is in cents and profit targets in tenths of a percent.  The day is
\* a number; NextDay is the clock passing midnight.
MaxTrades == 3
MaxDay == 2
RmTokens == {"PEPE", "DOGE"}
RmBuyPrices == {1000}
RmSellPrices == {800, 1300}
RmAmounts == {10, 60}
RmTradeSizes == {2000, 6000}

initial_capital == 50000
max_token_exposure == 20

NoAnswer == [allowed |-> FALSE, failed_check |-> "not called"]

RmInit ==
    rm = [current_capital  |-> initial_capital,
          max_trade_size   |-> (initial_capital * 10) \div 100,
          daily_loss_limit |-> (initial_capital * 5) \div 100,
          take_profit      |-> 30,
          trades           |-> <<>>,
          daily_pnl        |-> EmptyMap,
          today            |-> 1,
          op               |-> "init",
          answer           |-> NoAnswer]

\* calculate_daily_loss: self.daily_pnl.get(date, 0)
CalculateDailyLoss(r, date) ==
    IF date \in DOMAIN r.daily_pnl THEN r.daily_pnl[date] ELSE 0

RECURSIVE SumAmounts(_, _, _)
SumAmounts(trades, token, i) ==
    IF i > Len(trades) THEN 0
    ELSE (IF trades[i].token = token THEN trades[i].amount ELSE 0)
             + SumAmounts(trades, token, i + 1)

\* get_token_exposure(token) > 20, the exposure being
\* sum of the token's amounts / current_capital * 100 (capital in dollars)
ExposureTooHigh(r, token) ==
    SumAmounts(r.trades, token, 1) * 100 * 100
        > max_token_exposure * r.current_capital

\* can_take_trade: the three checks in the code's order; the answer names
\* the check that refused.
CanTakeTradeOf(r, trade_size, token) ==
    IF trade_size > r.max_trade_size
    THEN [allowed |-> FALSE, failed_check |-> "trade_size"]
    ELSE IF Max2(CalculateDailyLoss(r, r.today),
                 -CalculateDailyLoss(r, r.today)) > r.daily_loss_limit
    THEN [allowed |-> FALSE, failed_check |-> "daily_loss"]
    ELSE IF ExposureTooHigh(r, token)
    THEN [allowed |-> FALSE, failed_check |-> "exposure"]
    ELSE [allowed |-> TRUE, failed_check |-> "none"]

\* update_risk_parameters
UpdateRiskParameters(r) ==
    LET r1 == [r EXCEPT !.max_trade_size = (r.current_capital * 10) \div 100,
                        !.daily_loss_limit = (r.current_capital * 5) \div 100]
    IN IF r.current_capital * 10 > initial_capital * 15
       THEN [r1 EXCEPT !.take_profit = 25,
                       !.max_trade_size = (r.current_capital * 15) \div 100]
       ELSE IF r.current_capital * 10 < initial_capital * 8
       THEN [r1 EXCEPT !.take_profit = 35,
                       !.max_trade_size = (r.current_capital * 8) \div 100]
       ELSE r1

\* record_trade
RecordTradeOf(r, token, buy_price, sell_price, amount, date) ==
    LET profit == (sell_price - buy_price) * amount
        roi    == (profit * 100) \div (buy_price * amount)
        trade  == [token |-> token, buy_price |-> buy_price,
                   sell_price |-> sell_price, amount |-> amount,
                   profit |-> profit, roi |-> roi, timestamp |-> date]
    IN UpdateRiskParameters(
           [r EXCEPT !.trades = Append(@, trade),
                     !.daily_pnl = DictSet(@, date,
                                           CalculateDailyLoss(r, date) + profit),
                     !.current_capital = @ + profit])

CanTakeTrade(trade_size, token) ==
    /\ rm' = [rm EXCEPT !.op = "can_take_trade",
                        !.answer = CanTakeTradeOf(rm, trade_size, token)]
    /\ UNCHANGED <<simVars, detVars, riskVars, pollVars, rateVars, liveVars,
                   feedVars, monVars, engVars, alertVars>>

RecordTrade(token, buy_price, sell_price, amount) ==
    /\ Len(rm.trades) < MaxTrades
    /\ rm' = [RecordTradeOf(rm, token, buy_price, sell_price, amount, rm.today)
                  EXCEPT !.op = "record_trade", !.answer = NoAnswer]
    /\ UNCHANGED <<simVars, detVars, riskVars, pollVars, rateVars, liveVars,
                   feedVars, monVars, engVars, alertVars>>

\* datetime.now().date() moves to the next day
NextDay ==
    /\ rm.today < MaxDay
    /\ rm' = [rm EXCEPT !.today = @ + 1, !.op = "next_day",
                        !.answer = NoAnswer]
    /\ UNCHANGED <<simVars, detVars, riskVars, pollVars, rateVars, liveVars,
                   feedVars, monVars, engVars, alertVars>>

RmNext ==
    \/ \E trade_size \in RmTradeSizes, token \in RmTokens :
           CanTakeTrade(trade_size, token)
    \/ \E token \in RmTokens, buy_price \in RmBuyPrices,
          sell_price \in RmSellPrices, amount \in RmAmounts :
           RecordTrade(token, buy_price, sell_price, amount)
    \/ NextDay

\* ------------------------------------------------------------------------
\* TradingEngine (trading/engine.py)
\* ------------------------------------------------------------------------
\* One action is one turn of the for loop of start: one token is processed,
\* and after the last token the loop starts again with the first.
\* Money is in 1/10000 of a dollar, so that a cent is 100.  The balance the
\* constructor loads from simulation_results.json is an input.  The value
\* returned at an exit, size * current_price / entry_price, is cut to the
\* unit.  trade_history, which the engine only writes, is left out.
MaxEngineSteps == 7
LoadedBalances == {5000000, 1000000, 200000, 80000}
EnginePrices == {40, 100, 103}
EngineVolumes == {500, 2000}
EnginePriceChanges == {0, 4}

engine_tokens == <<"PEPE", "DOGE", "SHIB", "FLOKI", "WOJAK">>
max_active_positions == 3
min_profit == 3
max_loss == 2
min_volume == 1000
position_size_min == 100000
position_size_max == 450000

\* What get_token_data hands to the loop: nothing, or a quote.
NoMarketData == [none |-> TRUE]

EngineMarketData ==
    {NoMarketData}
    \cup [price : EnginePrices, volume_24h : EngineVolumes,
          price_change_1h : EnginePriceChanges]

EngInit ==
    \E balance \in LoadedBalances :
        eng = [practice_balance |-> balance,
               active_positions |-> EmptyMap,
               total_trades     |-> 0,
               winning_trades   |-> 0,
               cursor           |-> 1,
               steps            |-> 0,
               op               |-> "init"]

\* _should_enter_position; random_draw is np.random.random() > 0.3
ShouldEnterPosition(e, market_data, random_draw) ==
    /\ market_data.volume_24h >= min_volume
    /\ Max2(market_data.price_change_1h, -market_data.price_change_1h)
           >= min_profit
    /\ e.practice_balance >= position_size_min
    /\ ~random_draw

\* round(x, 2) of x = n / 10 units: to the nearest cent, a tie to the even one
RoundToCent(n) ==
    LET q == n \div 1000
        r == n % 1000
    IN IF r > 500 \/ (r = 500 /\ q % 2 = 1) THEN (q + 1) * 100 ELSE q * 100

\* _calculate_position_size
CalculatePositionSize(e) ==
    LET tenths == Min2(e.practice_balance * 4, position_size_max * 10)
    IN RoundToCent(Max2(position_size_min * 10, tenths))

\* _enter_position
EnterPosition(e, token, size, market_data) ==
    IF size > e.practice_balance THEN [e EXCEPT !.op = "refused"]
    ELSE [e EXCEPT !.practice_balance = @ - size,
                   !.active_positions =
                       DictSet(@, token,
                               [entry_price |-> market_data.price,
                                size |-> size]),
                   !.op = "entered"]

\* _update_position: the exit when the price is at or below
\* entry * (1 - max_loss/100), at or above entry * (1 + min_profit/100), or
\* more than 50% away from the entry.
UpdatePosition(e, token, market_data) ==
    LET position == e.active_positions[token]
        current_price == market_data.price
        entry == position.entry_price
        should_exit ==
            \/ current_price * 100 <= entry * (100 - max_loss)
            \/ current_price * 100 >= entry * (100 + min_profit)
            \/ Max2(current_price - entry, entry - current_price) * 100
                   > 50 * entry
    IN IF ~should_exit THEN [e EXCEPT !.op = "held"]
       ELSE [e EXCEPT !.practice_balance =
                          @ + (position.size * current_price) \div entry,
                      !.total_trades = @ + 1,
                      !.winning_trades =
                          IF current_price > entry THEN @ + 1 ELSE @,
                      !.active_positions = DictDel(@, token),
                      !.op = "exited"]

\* Line 72 without the limit of three positions.
MayEnter_no_limit(e, token) ==
    token \notin DOMAIN e.active_positions

\* Line 72: the token has no position and fewer than 3 are active.
MayEnter(e, token) ==
    /\ token \notin DOMAIN e.active_positions
    /\ Cardinality(DOMAIN e.active_positions) < max_active_positions

\* Lines 63-82: the body of the for loop for one token.
ProcessTokenOf(e, token, market_data, random_draw) ==
    IF market_data = NoMarketData THEN [e EXCEPT !.op = "no data"]
    ELSE IF MayEnter(e, token)
    THEN IF ShouldEnterPosition(e, market_data, random_draw)
         THEN EnterPosition(e, token, CalculatePositionSize(e), market_data)
         ELSE [e EXCEPT !.op = "declined"]
    ELSE IF token \in DOMAIN e.active_positions
    THEN UpdatePosition(e, token, market_data)
    ELSE [e EXCEPT !.op = "full"]

ProcessToken(market_data, random_draw) ==
    /\ eng.steps < MaxEngineSteps
    /\ LET e == ProcessTokenOf(eng, engine_tokens[eng.cursor], market_data,
                               random_draw)
       IN eng' = [e EXCEPT !.cursor = IF @ = Len(engine_tokens) THEN 1
                                      ELSE @ + 1,
                           !.steps = @ + 1]
    /\ UNCHANGED <<simVars, detVars, riskVars, pollVars, rateVars, liveVars,
                   feedVars, monVars, rmVars, alertVars>>

EngNext ==
    \E market_data \in EngineMarketData, random_draw \in BOOLEAN :
        ProcessToken(market_data, random_draw)

\* ------------------------------------------------------------------------
\* PriceAlertManager (price_alerts.py)
\* ------------------------------------------------------------------------
\* self.alerts is a list and self.triggered_alerts a set of list indices,
\* counted from 0 as in the code.  Each alert carries the number it was
\* added as, id, which the code does not have; returned counts how often
\* check_alerts has returned it.  Time is in hours; expires_at 0 is None.
MaxAlerts == 3
MaxAlertClock == 2
AlertPairs == {"SOL/USDC"}
AlertConditions == {"above", "below"}
AlertPrices == {100}
AlertDurations == {0, 1}
CurrentPrices == {0, 90, 110}
AlertIds == 1..MaxAlerts

AlertInit ==
    alerts = [alerts           |-> <<>>,
              triggered_alerts |-> {},
              returned         |-> [id \in AlertIds |-> 0],
              added            |-> 0,
              now              |-> 0,
              op               |-> "init"]

\* add_alert
AddAlertOf(a, pair, condition, price, duration_hours) ==
    [a EXCEPT !.alerts =
                  Append(@, [id |-> a.added + 1,
                             pair |-> pair,
                             condition |-> condition,
                             price |-> price,
                             expires_at |-> IF duration_hours # 0
                                            THEN a.now + duration_hours
                                            ELSE 0]),
              !.added = @ + 1,
              !.op = "add_alert"]

\* self.alerts.pop(alert_id)
Pop(xs, i) ==
    [k \in 1..(Len(xs) - 1) |-> IF k <= i THEN xs[k] ELSE xs[k + 1]]

\* remove_alert
RemoveAlertOf(a, alert_id) ==
    IF 0 <= alert_id /\ alert_id < Len(a.alerts)
    THEN [a EXCEPT !.alerts = Pop(@, alert_id), !.op = "remove_alert"]
    ELSE [a EXCEPT !.op = "remove_alert refused"]

\* The test of one alert in check_alerts; current_prices maps a pair to a
\* price, 0 standing for a missing or zero price.
IsTriggered(alert, now, current_prices) ==
    /\ ~(alert.expires_at # 0 /\ now > alert.expires_at)
    /\ current_prices[alert.pair] # 0
    /\ \/ alert.condition = "above" /\ current_prices[alert.pair] > alert.price
       \/ alert.condition = "below" /\ current_prices[alert.pair] < alert.price

\* check_alerts: the indices it returns
TriggeredNow(a, current_prices) ==
    { i \in 0..(Len(a.alerts) - 1) :
        /\ i \notin a.triggered_alerts
        /\ IsTriggered(a.alerts[i + 1], a.now, current_prices) }

CheckAlertsOf(a, current_prices) ==
    LET triggered == TriggeredNow(a, current_prices)
    IN [a EXCEPT !.triggered_alerts = @ \cup triggered,
                 !.returned = [id \in AlertIds |->
                                  IF \E i \in triggered : a.alerts[i + 1].id = id
                                  THEN @[id] + 1 ELSE @[id]],
                 !.op = "check_alerts"]

\* get_active_alerts, as the ids of the alerts it lists
GetActiveAlerts(a) ==
    { a.alerts[i + 1].id : i \in
        { j \in 0..(Len(a.alerts) - 1) :
            /\ j \notin a.triggered_alerts
            /\ (a.alerts[j + 1].expires_at = 0
                   \/ a.now <= a.alerts[j + 1].expires_at) } }

\* get_triggered_alerts, as the ids of the alerts it lists
GetTriggeredAlerts(a) ==
    { a.alerts[i + 1].id : i \in
        { j \in 0..(Len(a.alerts) - 1) : j \in a.triggered_alerts } }

AddAlert(pair, condition, price, duration_hours) ==
    /\ alerts.added < MaxAlerts
    /\ alerts' = AddAlertOf(alerts, pair, condition, price, duration_hours)
    /\ UNCHANGED <<simVars, detVars, riskVars, pollVars, rateVars, liveVars,
                   feedVars, monVars, rmVars, engVars>>

RemoveAlert(alert_id) ==
    /\ alerts' = RemoveAlertOf(alerts, alert_id)
    /\ UNCHANGED <<simVars, detVars, riskVars, pollVars, rateVars, liveVars,
                   feedVars, monVars, rmVars, engVars>>

CheckAlerts(current_prices) ==
    /\ alerts' = CheckAlertsOf(alerts, current_prices)
    /\ UNCHANGED <<simVars, detVars, riskVars, pollVars, rateVars, liveVars,
                   feedVars, monVars, rmVars, engVars>>

\* datetime.now() an hour later
AlertClock ==
    /\ alerts.now < MaxAlertClock
    /\ alerts' = [alerts EXCEPT !.now = @ + 1, !.op = "clock"]
    /\ UNCHANGED <<simVars, detVars, riskVars, pollVars, rateVars, liveVars,
                   feedVars, monVars, rmVars, engVars>>

AlertNext ==
    \/ \E pair \in AlertPairs, condition \in AlertConditions,
          price \in AlertPrices, duration_hours \in AlertDurations :
           AddAlert(pair, condition, price, duration_hours)
    \/ \E alert_id \in 0..MaxAlerts : RemoveAlert(alert_id)
    \/ \E current_prices \in [AlertPairs -> CurrentPrices] :
           CheckAlerts(current_prices)
    \/ AlertClock

\* ------------------------------------------------------------------------
\* Specifications: one per subsystem; the other subsystems stay idle.
\* ------------------------------------------------------------------------
Idle == [idle |-> TRUE]

SimIdle ==
    /\ current_balance = initial_balance
    /\ positions = EmptyMap
    /\ trade_history = <<>>
    /\ wins = 0
    /\ losses = 0
    /\ total_trades = 0
    /\ last_call = NoCall
    /\ exit_log = <<>>
    /\ steps = MaxSteps

DetIdle == det = Idle /\ det_result = NotCalled

RiskIdle == risk = Idle /\ volatility_cache = EmptyMap /\ risk_result = NotCalled

PollIdle == poll = Idle

RateIdle == rate = Idle

LiveIdle == live = Idle

FeedIdle == feed = Idle

MonIdle == mon = Idle

RmIdle == rm = Idle

EngIdle == eng = Idle

AlertIdle == alerts = Idle

OthersIdle == RmIdle /\ EngIdle /\ AlertIdle

\* SimulatedTrader
Init == SimInit /\ DetIdle /\ RiskIdle /\ PollIdle /\ RateIdle /\ LiveIdle /\ FeedIdle /\ MonIdle /\ OthersIdle
Next == SimNext
Spec == Init /\ [][Next]_vars

\* SimulatedTrader under a driver that never stops: each round of its loop
\* calls update_positions with fresh prices and then tries an entry.  The
\* entries are weakly fair, and a price update that changes the state happens
\* again and again, which is more than weak fairness of the feed gives.
HoldSpecNext == Entries \/ PriceFeed
HoldSpec ==
    Init /\ [][HoldSpecNext]_vars /\ WF_vars(Entries) /\ []<><<PriceFeed>>_vars

\* Opportunity detection
DetSpecInit == DetInit /\ SimIdle /\ RiskIdle /\ PollIdle /\ RateIdle /\ LiveIdle /\ FeedIdle /\ MonIdle /\ OthersIdle
DetSpecNext == DetNext
DetSpec == DetSpecInit /\ [][DetSpecNext]_vars

\* A polling round of DEXManager
PollSpecInit == PollInit /\ SimIdle /\ DetIdle /\ RiskIdle /\ RateIdle /\ LiveIdle /\ FeedIdle /\ MonIdle /\ OthersIdle
PollSpecNext == PollNext
PollSpec == PollSpecInit /\ [][PollSpecNext]_vars

\* The event loop runs every task that can run: a round that can take a step
\* takes it.
PollFairSpec == PollSpec /\ WF_vars(PollSpecNext)

\* Concurrent callers of the rate limiter
RateSpecInit == RateInit /\ SimIdle /\ DetIdle /\ RiskIdle /\ PollIdle /\ LiveIdle /\ FeedIdle /\ MonIdle /\ OthersIdle
RateSpecNext == RateNext
RateSpec == RateSpecInit /\ [][RateSpecNext]_vars

\* LiveTestTrader
LiveSpecInit == LiveInit /\ SimIdle /\ DetIdle /\ RiskIdle /\ PollIdle /\ RateIdle /\ FeedIdle /\ MonIdle /\ OthersIdle
LiveSpecNext == LiveNext
LiveSpec == LiveSpecInit /\ [][LiveSpecNext]_vars

\* MarketDataHandler.get_token_data
FeedSpecInit ==
    FeedInit /\ SimIdle /\ DetIdle /\ RiskIdle /\ PollIdle /\ RateIdle /\ LiveIdle
        /\ MonIdle /\ OthersIdle
FeedSpecNext == FeedNext
FeedSpec == FeedSpecInit /\ [][FeedSpecNext]_vars

\* SolanaTrader.monitor_with_backoff
MonSpecInit ==
    MonInit /\ SimIdle /\ DetIdle /\ RiskIdle /\ PollIdle /\ RateIdle /\ LiveIdle
        /\ FeedIdle /\ OthersIdle
MonSpecNext == MonNext
MonSpec == MonSpecInit /\ [][MonSpecNext]_vars

\* RiskManager
RmSpecInit ==
    RmInit /\ SimIdle /\ DetIdle /\ RiskIdle /\ PollIdle /\ RateIdle /\ LiveIdle
        /\ FeedIdle /\ MonIdle /\ EngIdle /\ AlertIdle
RmSpecNext == RmNext
RmSpec == RmSpecInit /\ [][RmSpecNext]_vars

\* TradingEngine
EngSpecInit ==
    EngInit /\ SimIdle /\ DetIdle /\ RiskIdle /\ PollIdle /\ RateIdle /\ LiveIdle
        /\ FeedIdle /\ MonIdle /\ RmIdle /\ AlertIdle
EngSpecNext == EngNext
EngSpec == EngSpecInit /\ [][EngSpecNext]_vars

\* PriceAlertManager
AlertSpecInit ==
    AlertInit /\ SimIdle /\ DetIdle /\ RiskIdle /\ PollIdle /\ RateIdle /\ LiveIdle
        /\ FeedIdle /\ MonIdle /\ RmIdle /\ EngIdle
AlertSpecNext == AlertNext
AlertSpec == AlertSpecInit /\ [][AlertSpecNext]_vars

\* Risk scoring
RiskSpecInit == RiskInit /\ SimIdle /\ DetIdle /\ PollIdle /\ RateIdle /\ LiveIdle /\ FeedIdle /\ MonIdle /\ OthersIdle
RiskSpecNext == RiskNext
RiskSpec == RiskSpecInit /\ [][RiskSpecNext]_vars

\* ------------------------------------------------------------------------
\* Properties of opportunity detection
\* ------------------------------------------------------------------------
Emitted == IF det_result.done THEN SeqRange(det_result.opportunities) ELSE {}

\* The quote set of a pair: the venues and prices the detector compared.
QuoteSet(pair) == det_result.prices[pair]

\* C3: every opportunity emitted has buy price <= sell price; its buy venue
\* quotes the buy price, which no venue of the quote set undercuts, and its
\* sell venue quotes the sell price, which no venue exceeds.
C3_BuyNotAboveSell ==
    \A o \in Emitted :
        /\ o.buy_price <= o.sell_price
        /\ Cardinality(DOMAIN QuoteSet(o.pair)) >= 2
        /\ o.buy_dex \in DOMAIN QuoteSet(o.pair)
        /\ o.sell_dex \in DOMAIN QuoteSet(o.pair)
        /\ QuoteSet(o.pair)[o.buy_dex] = o.buy_price
        /\ QuoteSet(o.pair)[o.sell_dex] = o.sell_price
        /\ \A d \in DOMAIN QuoteSet(o.pair) :
               o.buy_price <= QuoteSet(o.pair)[d] /\ QuoteSet(o.pair)[d] <= o.sell_price

\* An opportunity emitted from three venues whose last one is not the
\* dearest.
C3_Witness ==
    \E o \in Emitted :
        /\ o.buy_price < o.sell_price
        /\ Cardinality(DOMAIN QuoteSet(o.pair)) = 3
        /\ \E d \in DOMAIN QuoteSet(o.pair) :
               d # o.sell_dex /\ QuoteSet(o.pair)[d] < o.sell_price
                              /\ d = DexOrder(det.detector)[3]

\* The spread of an opportunity is at least the configured minimum.
SpreadEnough(o) ==
    CASE det.detector = "DEXManager" ->
             (o.sell_price - o.buy_price) * 100 >= det.threshold * o.buy_price
      [] det.detector = "ArbitrageBot" ->
             o.sell_price - o.buy_price >= det.threshold
      [] det.detector = "SolanaArbitrageBot" ->
             o.sell_price - o.buy_price - max_transaction_fee >= det.threshold

\* A liquidity floor that a venue without liquidity does not reach.
LiquidityFloors == LiquidityValues \ {0}

C10_FewerThanTwoVenues ==
    det_result.done =>
        /\ ~det_result.raised
        /\ \A pair \in DOMAIN det_result.prices :
               Cardinality(DOMAIN QuoteSet(pair)) < 2 =>
                   \A o \in Emitted : o.pair # pair

\* A call has returned with a pair of exactly one venue, a pair of no venue
\* being the other, under a minimum of 0.
C10_Witness ==
    /\ det_result.done
    /\ det.threshold = 0
    /\ \E p, q \in DOMAIN det_result.prices :
           /\ Cardinality(DOMAIN QuoteSet(p)) = 1
           /\ Cardinality(DOMAIN QuoteSet(q)) = 0

\* ------------------------------------------------------------------------
\* Properties of the risk score
\* ------------------------------------------------------------------------
WeightsTotal ==
    weights.volatility + weights.liquidity + weights.spread + weights.volume
        + weights.smart_contract

\* C4: the weights sum to 1 and the total risk returned lies in [0,100], on
\* the normal path (every component in [0,100]) and on the error path.
C4_TotalRiskInRange ==
    /\ WeightsTotal = 100
    /\ risk_result.done =>
           /\ risk_result.total_risk >= 0
           /\ risk_result.total_risk <= 100 * 100
           /\ ~risk_result.error =>
                  \A k \in DOMAIN risk_result.components :
                      risk_result.components[k] \in 0..100

\* A score computed from a volatility above the scale, which was clamped.
C4_Witness ==
    /\ risk_result.done
    /\ ~risk_result.error
    /\ risk.volatility.history = "prices"
    /\ risk.volatility.scaled > 100
    /\ risk_result.components.volatility_risk = 100
    /\ risk_result.total_risk > 0

\* ------------------------------------------------------------------------
\* Properties of the polling round
\* ------------------------------------------------------------------------
PollAnswer(pair, dex_name) == poll.answers[pair][dex_name]

PollPolled(pair) ==
    \/ poll.pc \in {"detect", "done"}
    \/ \E k \in DOMAIN PollPairs : PollPairs[k] = pair /\ k < poll.i

PollReport(pair) ==
    [opportunities |->
         { [buy_dex |-> o.buy_dex, sell_dex |-> o.sell_dex,
            buy_price |-> o.buy_price, sell_price |-> o.sell_price] :
               o \in { x \in SeqRange(poll.opportunities) : x.pair = pair } },
     errors |-> { dex_name \in SeqRange(PollDexes) :
                      <<pair, dex_name>> \in poll.error_log }]

AllVenuesFailed(pair) ==
    \A dex_name \in SeqRange(PollDexes) :
        LET answer == PollAnswer(pair, dex_name) IN
          answer.kind = "raises" \/ (answer.kind = "returns" /\ answer.value = 0)

QuotedNoOpportunity(pair) ==
    /\ Cardinality(DOMAIN poll.prices[pair]) >= 2
    /\ \A o \in SeqRange(poll.opportunities) : o.pair # pair

\* C19: in a finished round, what is reported for a pair all of whose venues
\* failed differs from what is reported for a pair that was quoted and had no
\* opportunity.
C19_AllFailedDistinguishable ==
    poll.pc = "done" =>
        \A p, q \in SeqRange(PollPairs) :
            (AllVenuesFailed(p) /\ QuotedNoOpportunity(q)) =>
                PollReport(p) # PollReport(q)

\* ------------------------------------------------------------------------
\* Properties of the rate limiter
\* ------------------------------------------------------------------------
\* C14: for every API, any two consecutive outbound requests are at least the
\* API's minimum interval apart, whichever tasks sent them.
C14_MinimumInterval ==
    \A api \in DOMAIN rate_limits :
        \A k \in 1..(Len(rate.requests[api]) - 1) :
            rate.requests[api][k + 1] - rate.requests[api][k] >= rate_limits[api]

\* ------------------------------------------------------------------------
\* Properties of the risk verdict
\* ------------------------------------------------------------------------
risk_threshold == 6000

\* The scorer tells its caller to go on with the trade.
AdvisedToProceed(result) ==
    \E k \in DOMAIN result.recommendations :
        result.recommendations[k] \in
            {"High risk detected - proceed with caution",
             "Standard trading parameters acceptable",
             "Consider standard position sizing"}

C16_FailedEntryChangesNothing ==
    [][(last_call'.op = "BUY" /\ ~last_call'.success) =>
          /\ current_balance' = current_balance
          /\ positions' = positions
          /\ trade_history' = trade_history]_vars

\* A BUY was refused for its size while a position bought earlier is open.
C16_Witness ==
    /\ last_call.op = "BUY"
    /\ ~last_call.success
    /\ last_call.error = "Position size exceeds maximum allowed"
    /\ positions # EmptyMap
    /\ current_balance < initial_balance

\* C18: a price update works on the position as the trader holds it: each of
\* its exit requests is issued with no other request outstanding, and is
\* computed from the amount that self.positions holds for the token at that
\* moment, never from a copy that an earlier step has changed or removed.
C18_NoStaleCopy ==
    \A i \in DOMAIN exit_log :
        /\ exit_log[i].outstanding = 0
        /\ exit_log[i].before.amount = exit_log[i].before.held

\* C20: a step that removes an open position from the active set, or puts
\* another position in its place, appends a trade-history record for its
\* token.
C20_LeavesOnlyArchived ==
    [][\A token \in DOMAIN positions :
          LET replaced == /\ last_call'.op = "BUY"
                          /\ last_call'.success
                          /\ last_call'.token = token
              removed == token \notin DOMAIN positions'
          IN (replaced \/ removed) =>
                \E i \in (Len(trade_history) + 1)..Len(trade_history') :
                    trade_history'[i].token = token]_vars

\* C17: while price updates keep arriving, every open position is eventually
\* closed and leaves the active set.
C17_EveryPositionCloses ==
    \A token \in Tokens :
        (token \in DOMAIN positions) ~> (token \notin DOMAIN positions)

\* ------------------------------------------------------------------------
\* Properties of the take-profit tiers
\* ------------------------------------------------------------------------
TierTags == {"first", "second", "moonbag"}

\* The exit requests of a log issued for the token by the tier.
TierExits(log, token, tag) ==
    { i \in ExitsOf(log, token) : log[i].tag = tag }

\* C21: a take-profit tier fires at most once in the lifetime of a position:
\* a price update issues at most one exit per tier for a token, the position
\* for which a tier has fired is no longer in the active set when the update
\* returns, and an update issues no exit for a token that has no position, so
\* that no later update can fire the tier again for it.
C21_TierFiresOnce ==
    [][last_call'.op = "update_positions" =>
          \A token \in Tokens :
              /\ token \notin DOMAIN positions =>
                     ExitsOf(exit_log', token) = {}
              /\ \A tag \in TierTags :
                     /\ Cardinality(TierExits(exit_log', token, tag)) <= 1
                     /\ TierExits(exit_log', token, tag) # {} =>
                            token \notin DOMAIN positions']_vars

\* The first tier of a position fired at 1.31; a later price update quotes
\* the token at or above that tier's price and issues no exit.
C21_Witness ==
    /\ last_call.op = "update_positions"
    /\ exit_log = <<>>
    /\ \E i \in DOMAIN last_call.market_data :
           LET token == last_call.market_data[i].token
               price == last_call.market_data[i].price
           IN /\ token \notin DOMAIN positions
              /\ \E k \in DOMAIN trade_history :
                     /\ trade_history[k].token = token
                     /\ trade_history[k].exit_price * 100
                            >= trade_history[k].entry_price * take_profit_levels.first
                     /\ price >= trade_history[k].exit_price

\* The quantity a tier is to sell of a remaining size: tier_fraction per cent
\* at the first and the second target, all of it at the moonbag target.
TierQuantity(tag, remaining) ==
    IF tag = "moonbag" THEN remaining
    ELSE (remaining * tier_fraction) \div 100

\* C22: when a take-profit tier fires, the quantity sold and credited to the
\* balance is the tier's fraction of the size the position holds at that
\* moment, and the position then holds exactly the rest.
C22_TierSellsItsFraction ==
    \A i \in DOMAIN exit_log :
        exit_log[i].tag \in TierTags =>
            LET e == exit_log[i]
                quantity == TierQuantity(e.tag, e.before.held)
            IN /\ e.after.balance - e.before.balance = quantity * e.price
               /\ e.after.held = e.before.held - quantity

\* ------------------------------------------------------------------------
\* Properties of the trailing stop
\* ------------------------------------------------------------------------
\* C23: a position is closed with reason "Trailing stop hit" only after a
\* take-profit has been realised for it: the trade history holds an earlier
\* "Take profit hit" record of the same position.
C23_TrailingStopAfterTier ==
    \A i \in DOMAIN live.trade_history :
        live.trade_history[i].reason = "Trailing stop hit" =>
            \E k \in 1..(i - 1) :
                /\ live.trade_history[k].token = live.trade_history[i].token
                /\ live.trade_history[k].opened = live.trade_history[i].opened
                /\ live.trade_history[k].reason = "Take profit hit"

\* ------------------------------------------------------------------------
\* Accounting of the SimulatedTrader
\* ------------------------------------------------------------------------
RECURSIVE CostBasis(_, _)
\* The sum of position_size over the positions of the tokens.
CostBasis(pos, tokens) ==
    IF tokens = {} THEN 0
    ELSE LET token == CHOOSE x \in tokens : TRUE
         IN pos[token].position_size + CostBasis(pos, tokens \ {token})

RECURSIVE ProfitFrom(_, _)
\* The sum of profit over history[i..].
ProfitFrom(history, i) ==
    IF i > Len(history) THEN 0
    ELSE history[i].profit + ProfitFrom(history, i + 1)

\* C24: the balance plus the cost basis of the open positions equals the
\* initial balance plus the profit recorded in the trade history.
C24_BalanceAccounts ==
    current_balance + CostBasis(positions, DOMAIN positions)
        = initial_balance + ProfitFrom(trade_history, 1)

\* ------------------------------------------------------------------------
\* Ties between venues
\* ------------------------------------------------------------------------
\* The place of a venue name of self.dexes in lexical order.
LexicalRank ==
    [d \in Venues("DEXManager") |->
        CASE d = "Jupiter" -> 1 [] d = "Orca" -> 2 [] d = "Raydium" -> 3]

\* Among tied venues: the one with the highest liquidity and, among those of
\* equal liquidity, the first in lexical order.
PreferredVenue(tied, liquidity) ==
    CHOOSE d \in tied :
        \A e \in tied :
            \/ liquidity[d] > liquidity[e]
            \/ liquidity[d] = liquidity[e] /\ LexicalRank[d] <= LexicalRank[e]

\* The venues that quote the pair at the price.
VenuesAt(dex_prices, price) ==
    { d \in DOMAIN dex_prices : dex_prices[d] = price }

\* C25: when several venues share the lowest (highest) price of a pair, the
\* buy (sell) venue of the opportunity is the one with the higher liquidity
\* and, among equal liquidity, the first by lexical order of the name.
C25_TiesByLiquidityThenName ==
    (det.detector = "DEXManager" /\ det_result.done) =>
        \A o \in Emitted :
            LET dex_prices == det_result.prices[o.pair] IN
              /\ o.buy_dex =
                     PreferredVenue(VenuesAt(dex_prices, o.buy_price), det.liquidity)
              /\ o.sell_dex =
                     PreferredVenue(VenuesAt(dex_prices, o.sell_price), det.liquidity)

\* ------------------------------------------------------------------------
\* Risk components
\* ------------------------------------------------------------------------
max_risk == 100

\* The volatility of the pair could not be computed: no fresh cache entry,
\* and the price history is missing or its evaluation raised.
VolatilityUnavailable ==
    /\ ~(RiskPair \in DOMAIN volatility_cache /\ risk.volatility.cached)
    /\ risk.volatility.history \in {"empty", "raises"}

\* A venue of the opportunity has no entry in dex_risk_scores.
UnknownVenue ==
    \/ risk.opportunity.buy_dex \notin KnownDexes
    \/ risk.opportunity.sell_dex \notin KnownDexes

\* C26: a risk component that could not be computed (no price history or an
\* error, a spread that cannot be evaluated, a volume that cannot be
\* evaluated, a venue without a security score) is scored 100.
C26_FailClosed ==
    (risk_result.done /\ ~risk_result.error) =>
        /\ VolatilityUnavailable =>
               risk_result.components.volatility_risk = max_risk
        /\ risk.opportunity.buy_price = 0 =>
               risk_result.components.spread_risk = max_risk
        /\ ~risk.volume.ok =>
               risk_result.components.volume_risk = max_risk
        /\ UnknownVenue =>
               risk_result.components.smart_contract_risk = max_risk

\* C28: the spread risk is 20 for a spread of at most 2%, 50 for a spread
\* above 2% and at most 5%, and 80 for a spread above 5%.
C28_SpreadBands ==
    (risk_result.done /\ ~risk_result.error /\ risk.opportunity.buy_price > 0) =>
        LET buy_price == risk.opportunity.buy_price
            spread == risk.opportunity.sell_price - buy_price
            spread_risk == risk_result.components.spread_risk
        IN /\ spread * 100 <= 2 * buy_price => spread_risk = 20
           /\ (spread * 100 > 2 * buy_price /\ spread * 100 <= 5 * buy_price) =>
                  spread_risk = 50
           /\ spread * 100 > 5 * buy_price => spread_risk = 80

\* A spread of exactly 5% was scored 50.
C28_Witness ==
    /\ risk_result.done
    /\ ~risk_result.error
    /\ risk.opportunity.buy_price = 100
    /\ risk.opportunity.sell_price = 105
    /\ risk_result.components.spread_risk = 50

\* C29: the total risk is the sum of the five components, each times its
\* weight (0.30, 0.25, 0.15, 0.15, 0.15), and the weights sum to 1.0.
C29_WeightedSum ==
    /\ weights.volatility + weights.liquidity + weights.spread
           + weights.volume + weights.smart_contract = 100
    /\ (risk_result.done /\ ~risk_result.error) =>
           risk_result.total_risk =
               risk_result.components.volatility_risk * 30
               + risk_result.components.liquidity_risk * 25
               + risk_result.components.spread_risk * 15
               + risk_result.components.volume_risk * 15
               + risk_result.components.smart_contract_risk * 15

\* A total computed from five components that are not all alike.
C29_Witness ==
    /\ risk_result.done
    /\ ~risk_result.error
    /\ risk_result.components.volatility_risk = 37
    /\ risk_result.components.spread_risk = 80
    /\ risk_result.components.volume_risk = 20
    /\ risk_result.components.smart_contract_risk = 35
    /\ risk_result.total_risk = 3135

\* ------------------------------------------------------------------------
\* Properties of the market data cache
\* ------------------------------------------------------------------------
\* The call about to be made comes before the API's minimum interval since
\* the last request to it has passed.
PolledEarly(api) ==
    /\ api \in DOMAIN feed.last_request
    /\ feed.now - feed.last_request[api] < rate_limits[api]

\* C27: a get_token_data call for a token listed at an API, made before the
\* API's minimum interval has passed since the last request to it, sends no
\* new request to that API and returns the cached quote of the token.
C27_EarlyPollServedFromCache ==
    [][\A token \in FeedTokens, api \in DOMAIN rate_limits :
          (/\ feed'.calls = feed.calls + 1
           /\ token_ids[token][api]
           /\ PolledEarly(api)
           /\ \E answers \in [DOMAIN rate_limits -> SourceAnswers] :
                  feed' = [GetTokenDataOf(feed, token, answers)
                               EXCEPT !.calls = @ + 1])
          => /\ feed'.requests[api] = feed.requests[api]
             /\ token \in DOMAIN feed.cache
             /\ feed'.returned = feed.cache[token].data]_vars

\* ------------------------------------------------------------------------
\* The position created by an entry
\* ------------------------------------------------------------------------
\* The keys of the position dict that execute_trade stores for a BUY.
PositionKeys ==
    {"amount", "entry_price", "current_price", "position_size", "stop_loss",
     "take_profits", "moonbag_reserved"}

KeptOpen ==
    { token \in DOMAIN live.positions \cap DOMAIN live'.positions :
          live'.positions[token].time = live.positions[token].time }

\* C31: a new position starts with its high-water mark at the entry price
\* and no trailing stop; a manage_positions call that leaves a position open
\* sets its high-water mark to the larger of the old mark and the price just
\* observed, and its trailing stop, which is 98% of the high-water price once
\* the price has risen above the entry, never moves down.
C31_HighWaterIsMaximum ==
    [][/\ live'.op = "open_position" =>
              \A token \in DOMAIN live'.fetched :
                  /\ live'.positions[token].highest_pnl = 0
                  /\ live'.positions[token].trailing_stop = 0
       /\ live'.op = "manage_positions" =>
              \A token \in KeptOpen :
                  LET old == live.positions[token]
                      new == live'.positions[token]
                      observed == live'.fetched[token] - old.entry_price
                  IN /\ new.highest_pnl =
                            IF observed > old.highest_pnl
                            THEN observed ELSE old.highest_pnl
                     /\ new.trailing_stop >= old.trailing_stop
                     /\ new.trailing_stop =
                            IF new.highest_pnl > 0
                            THEN (new.entry_price + new.highest_pnl) * 98
                            ELSE 0]_vars

\* A position has seen 1.10 and then 1.08: it is still open, its high-water
\* mark is 1.10 and its trailing stop 1.078.
C31_Witness ==
    /\ live.op = "manage_positions"
    /\ \E token \in DOMAIN live.positions :
           /\ token \in DOMAIN live.fetched
           /\ live.fetched[token] = 108
           /\ live.positions[token].highest_pnl = 10
           /\ live.positions[token].trailing_stop = 10780

\* ------------------------------------------------------------------------
\* Properties of the wallet monitor
\* ------------------------------------------------------------------------
\* C32: no transaction signature is copy-traded more than once, also after
\* cleanup_resources has trimmed processed_transactions.
C32_CopiedAtMostOnce ==
    \A sig \in Signatures : mon.copied[sig] <= 1

\* C33: the endpoint an iteration's rotation selects is not one with 5 or
\* more recorded failures while another endpoint has fewer than 5.
C33_RotationFailsOver ==
    [][mon'.iterations = mon.iterations + 1 =>
          ~(/\ mon'.current_rpc \in Endpoints
            /\ mon.fails[mon'.current_rpc] >= fails_limit
            /\ \E e \in Endpoints : mon.fails[e] < fails_limit)]_vars

\* C38: a failed iteration does not stop the loop: it sleeps the current
\* backoff, which starts at 1, doubles per consecutive failure and is never
\* above 60, and the loop goes on; a successful iteration resets it to 1.
C38_BackoffAndContinue ==
    [][mon'.iterations = mon.iterations + 1 =>
          /\ mon.iterations = 0 => mon.backoff = 1
          /\ mon'.running
          /\ mon'.outcome \in {"failure", "success"}
          /\ mon'.outcome = "failure" =>
                 /\ mon'.slept = mon.backoff
                 /\ mon'.slept <= 60
                 /\ mon'.backoff = IF 2 * mon.backoff > 60 THEN 60
                                   ELSE 2 * mon.backoff
          /\ mon'.outcome = "success" => mon'.backoff = 1 /\ mon'.slept = 0]_vars

C38_Witness ==
    /\ mon # Idle
    /\ mon.running
    /\ mon.outcome = "failure"
    /\ mon.slept = 60
    /\ mon.backoff = 60

\* ------------------------------------------------------------------------
\* Properties of RiskManager
\* ------------------------------------------------------------------------
\* C34: can_take_trade refuses on the daily-loss check exactly when the day's
\* cumulative realised result is a loss larger than daily_loss_limit; a day
\* whose result is a profit never trips the limit.
C34_DailyLossOnlyOnLoss ==
    (rm.op = "can_take_trade" /\ rm.answer.failed_check # "trade_size") =>
        (rm.answer.failed_check = "daily_loss"
            <=> /\ CalculateDailyLoss(rm, rm.today) < 0
                /\ -CalculateDailyLoss(rm, rm.today) > rm.daily_loss_limit)

\* ------------------------------------------------------------------------
\* Properties of TradingEngine
\* ------------------------------------------------------------------------
\* C36: at most 3 positions are active, an entry never replaces the position
\* a token already has, and an entry takes the position's size from
\* practice_balance without making it negative.
C36_PositionLimits ==
    [][/\ Cardinality(DOMAIN eng'.active_positions) <= 3
       /\ \A t \in DOMAIN eng.active_positions \cap DOMAIN eng'.active_positions :
              eng'.active_positions[t] = eng.active_positions[t]
       /\ \A t \in DOMAIN eng'.active_positions \ DOMAIN eng.active_positions :
              /\ eng'.practice_balance >= 0
              /\ eng'.practice_balance
                     = eng.practice_balance - eng'.active_positions[t].size]_vars

C36_Witness ==
    /\ eng # Idle
    /\ eng.op = "full"
    /\ Cardinality(DOMAIN eng.active_positions) = 3
    /\ eng.practice_balance >= 0

\* ------------------------------------------------------------------------
\* Properties of PriceAlertManager
\* ------------------------------------------------------------------------
RemainingIds(a) == { a.alerts[k].id : k \in DOMAIN a.alerts }

\* C37: check_alerts returns each alert at most once, and a remove_alert
\* leaves every remaining alert triggered or not, and active or not, as it
\* was.
C37_OnceAndRemovalNeutral ==
    [][/\ \A id \in AlertIds : alerts'.returned[id] <= 1
       /\ alerts'.op = "remove_alert" =>
              \A id \in RemainingIds(alerts') :
                  /\ id \in GetTriggeredAlerts(alerts')
                         <=> id \in GetTriggeredAlerts(alerts)
                  /\ id \in GetActiveAlerts(alerts')
                         <=> id \in GetActiveAlerts(alerts)]_vars

\* ------------------------------------------------------------------------
\* Properties of the balance and the position sizes
\* ------------------------------------------------------------------------
\* C35: after any sequence of trades current_balance is not negative and
\* every open position's position_size is at most 10% of the initial balance.
C35_BalanceAndSizeBounds ==
    /\ current_balance >= 0
    /\ \A token \in DOMAIN positions :
           positions[token].position_size * 100 <= initial_balance * 10

\* A position has been sold and another one bought since: its size is within
\* the maximum and the balance is what the trades left.
C35_Witness ==
    /\ total_trades > 0
    /\ last_call.op = "BUY"
    /\ last_call.success
    /\ \E token \in DOMAIN positions :
           /\ positions[token].position_size > 0
           /\ positions[token].position_size <= max_position_size
    /\ current_balance > 0

====
